---- MODULE Spec2Model ----
(***************************************************************************)
(* The CWC server of packages/aiy-cwc-server/server.py: one WebSocket      *)
(* session (spawn / communicate) with its three kinds of task (ReadOp per  *)
(* piped stream, ReceiveOp, process.wait), the child process it spawns,    *)
(* the staging directory, and the session registry closed at shutdown.     *)
(*                                                                         *)
(* Tasks run on one asyncio event loop: a step of a task is atomic from    *)
(* one await to the next.  The library facts the model relies on are       *)
(* those of the Python/aiohttp the code was written for:                   *)
(*   - concurrent.futures.CancelledError is the exception a cancelled      *)
(*     task receives, and it is an Exception (caught by LogWarning);       *)
(*   - asyncio.wait(fs) returns when every member is done, whether it      *)
(*     returned or raised, and does not cancel its members when the        *)
(*     waiting task is cancelled;                                          *)
(*   - ws.send_json on a socket that is no longer open either raises or    *)
(*     returns (the frame is handed to a closing transport);               *)
(*   - the handler task is cancelled only by the framework, and only       *)
(*     after the socket has been closed or lost.                           *)
(*     Whether and when it does so differs between aiohttp releases, so    *)
(*     the cancellation is a step that may be taken, never one that must.  *)
(*                                                                         *)
(* The Bluetooth provisioning server of packages/aiy-bt-prov-server is     *)
(* followed in four parts, each with a specification of its own: the       *)
(* main thread of bt_prov_server.py with its trigger and its signal        *)
(* handler, StaWpasClient.ConnectNetwork, the locks of the two             *)
(* wpa_supplicant clients, and the alarms of WpasClient._EventThread.      *)
(* The facts of Python it relies on:                                       *)
(*   - a signal handler runs on the main thread, between two bytecodes of  *)
(*     whatever that thread is executing (a blocked lock acquisition       *)
(*     included), and the interrupted code resumes when it returns;        *)
(*   - threading.Lock is not reentrant, and a Condition built on it        *)
(*     releases it for the time of a wait;                                 *)
(*   - list.sort is stable.                                                *)
(***************************************************************************)
EXTENDS Integers, Sequences, FiniteSets, TLC

Sessions == {"s1", "s2"}
Streams == {"stdout", "stderr"}

\* Bounds of the model.
MaxFrames == 3
MaxInFlight == 1
MaxOut == 2
MaxErr == 1

\* Program constants.
DefaultChunkSize == 1024
SIGKILL == 9
SIGINT == 2

(***************************************************************************)
(* base64 (RFC 4648) on sequences of bytes 0..255.  A symbol is its index  *)
(* 0..63 in the alphabet; Pad is '='.                                      *)
(***************************************************************************)
Pad == 64

RECURSIVE b64encode(_)
b64encode(bs) ==
  IF Len(bs) = 0 THEN << >>
  ELSE IF Len(bs) = 1 THEN
    << bs[1] \div 4, (bs[1] % 4) * 16, Pad, Pad >>
  ELSE IF Len(bs) = 2 THEN
    << bs[1] \div 4, (bs[1] % 4) * 16 + bs[2] \div 16, (bs[2] % 16) * 4, Pad >>
  ELSE
    << bs[1] \div 4, (bs[1] % 4) * 16 + bs[2] \div 16,
       (bs[2] % 16) * 4 + bs[3] \div 64, bs[3] % 64 >>
    \o b64encode(SubSeq(bs, 4, Len(bs)))

RECURSIVE b64decode(_)
b64decode(cs) ==
  IF Len(cs) < 4 THEN << >>
  ELSE
    LET a == cs[1]
        b == cs[2]
        c == cs[3]
        d == cs[4]
        rest == SubSeq(cs, 5, Len(cs))
    IN IF c = Pad THEN << a * 4 + b \div 16 >>
       ELSE IF d = Pad THEN << a * 4 + b \div 16, (b % 16) * 16 + c \div 4 >>
       ELSE << a * 4 + b \div 16, (b % 16) * 16 + c \div 4, (c % 4) * 64 + d >>
            \o b64decode(rest)

(***************************************************************************)
(* Frames the client can put on the socket.  kind "run", "signal",         *)
(* "stdin" and "other" are text frames holding a JSON object whose type    *)
(* is that string ("other": a type that is none of the three, or none);    *)
(* "nonjson" is a text frame that json.loads rejects; "binary" is a        *)
(* binary frame.  chunk_size is {} when the key is absent; env is the      *)
(* request's mapping of names to values, empty unless WithEnv sets it.     *)
(***************************************************************************)
Frame(kind, args, cs, so, se, files, signum, data) ==
  [kind |-> kind, args |-> args, chunk_size |-> cs, stdout |-> so,
   stderr |-> se, files |-> files, signum |-> signum, data |-> data,
   env |-> << >>]

\* make_run_msg's env.
WithEnv(msg, env) == [msg EXCEPT !.env = env]

RunMsg(args, cs, so, se, files) == Frame("run", args, cs, so, se, files, 0, << >>)
SignalMsg(signum) == Frame("signal", "", {}, "", "", << >>, signum, << >>)
StdinMsg(payload) == Frame("stdin", "", {}, "", "", << >>, 0, b64encode(payload))
OtherMsg == Frame("other", "", {}, "", "", << >>, 0, << >>)
NonJson == Frame("nonjson", "", {}, "", "", << >>, 0, << >>)
Binary == Frame("binary", "", {}, "", "", << >>, 0, << >>)

\* args "ok" names an executable that starts, "missing" one that does not.
\* File names: "main.py" is a plain name, "sub/x.py" names a directory that
\* does not exist, "/abs.py" is absolute, "../up.py" leaves the directory.
RunMsgs ==
  { WithEnv(RunMsg("ok", {}, "pipe", "pipe", << "main.py" >>),
            "PYTHONUNBUFFERED" :> "1"),
    WithEnv(RunMsg("ok", {1}, "pipe", "stdout", << >>), "PATH" :> "/opt/bin"),
    WithEnv(RunMsg("ok", {2}, "null", "pipe", << "/abs.py", "../up.py" >>),
            "HOME" :> ""),
    RunMsg("ok", {1}, "pipe", "null", << >>),
    RunMsg("ok", {0}, "pipe", "pipe", << >>),
    RunMsg("missing", {1}, "pipe", "pipe", << "main.py" >>),
    RunMsg("ok", {1}, "pipe", "pipe", << "main.py", "sub/x.py" >>) }

Payloads == { << >>, << 104 >>, << 255, 0 >> }
Commands ==
  { SignalMsg(SIGINT) } \cup { StdinMsg(p) : p \in Payloads }
  \cup { OtherMsg, NonJson, Binary, RunMsg("ok", {1}, "pipe", "pipe", << >>) }
FirstFrames == RunMsgs \cup { SignalMsg(SIGINT), StdinMsg(<< 104 >>), OtherMsg, NonJson, Binary }

\* What the child exits with on its own.
ExitCodes == { 0, 127 }

\* The i-th byte the child writes to a file descriptor.
ChildByte(fd, i) == IF fd = "stdout" THEN 250 + i ELSE i - 1

NoRun == Frame("none", "", {}, "", "", << >>, 0, << >>)

\* os.environ of the server process.
os_environ == ("PATH" :> "/usr/bin") @@ ("HOME" :> "/home/pi")

\* collections.ChainMap(first, second): a name is looked up in first, and
\* in second when first does not have it.
ChainMapReversed(first, second) ==
  [n \in DOMAIN first \cup DOMAIN second |->
     IF n \in DOMAIN second THEN second[n] ELSE first[n]]

ChainMap(first, second) ==
  [n \in DOMAIN first \cup DOMAIN second |->
     IF n \in DOMAIN first THEN first[n] ELSE second[n]]

VARIABLES
  registry,     \* app['websockets']: the sessions whose socket is registered
  stopping,     \* the server has begun shutdown (on_shutdown has run close_all)
  closing,      \* close_all: the sockets of its snapshot it has yet to close
  outside,      \* files written outside every staging directory
  pc,           \* where the spawn handler of a session is suspended
  outcome,      \* how the handler ended
  cancelled,    \* communicate caught CancelledError around asyncio.wait
  conn,         \* the socket: none, open, client_closed, going_away, finished
  clientSent,   \* the frames the client has sent, in order
  nRecv,        \* how many of them the server has taken from the socket
  run,          \* the run message communicate accepted
  tmpdir,       \* the staging directory: none, exists, removed
  staged,       \* the files written into it
  child,        \* the child process: none, running, exited, reaped
  returncode,   \* its return code as asyncio reports it
  pendSig,      \* the last signal delivered to the running child (0: none)
  spawns,       \* how many children the session has started
  environ,      \* the environment the child was started with
  stdinBytes,   \* the bytes written to the child's stdin
  stdinClosed,  \* process.stdin.close() has been called
  applied,      \* the commands ReceiveOp applied to the child, in order
  nwritten,     \* per file descriptor, how many bytes the child has written
  written,      \* per pipe, the bytes the child has written into it
  nread,        \* per pipe, how many of them its ReadOp has read
  rd,           \* per pipe, its ReadOp: none, reading, draining, done, failed
  rcv,          \* ReceiveOp: none, running, ended, cancelled
  sent          \* the messages send_json accepted, in order

serverVars == << registry, stopping, closing, outside >>
handlerVars == << pc, outcome, cancelled, run, tmpdir, staged >>
sockVars == << conn, clientSent, nRecv >>
childVars == << child, returncode, pendSig, spawns, environ, nwritten, written >>
stdinVars == << stdinBytes, stdinClosed, applied >>
taskVars == << nread, rd, rcv, sent >>
cwcVars == << serverVars, handlerVars, sockVars, childVars, stdinVars, taskVars >>

\* The Bluetooth provisioning server (aiy-bt-prov-server), one record for
\* each part of it that is followed.
VARIABLES
  prov,         \* BtProvServer: the main thread, the signal handler, the trigger
  wpas,         \* the threads of the wpa_supplicant clients and their locks
  sta,          \* StaWpasClient.ConnectNetwork and what it sees of the network
  evt           \* WpasClient._EventThread: the clock and the alarms

provVars == << prov, wpas, sta, evt >>

vars == << cwcVars, provVars >>

\* The two clients (test.py creates one of each) and their three locks.
Clients == { "sta", "p2p" }
LockNames == { "_lock", "_control_lock", "_alarm_lock" }
Locks == [ obj : Clients, lock : LockNames ]
Threads == { "main", "closer", "sta.event", "sta.dhcp", "p2p.event" }

\* BtProvServer.__init__ with a trigger, StaWpasClient.__init__ on a device
\* that is connected to its configured network, _EventThread.__init__.
InitProv ==
  /\ prov = [ mpc |-> "run", hpc |-> "none", tpc |-> "idle",
              lock |-> "none", sta_lock |-> "none", control_lock |-> "none",
              triggered |-> FALSE, closed |-> FALSE, notified |-> FALSE,
              started |-> FALSE, result |-> "none",
              signals |-> 0, presses |-> 0, teardowns |-> 0 ]
  /\ wpas = [ op |-> [t \in Threads |-> "idle"], at |-> [t \in Threads |-> 0],
              owner |-> [l \in Locks |-> "none"] ]
  /\ sta = [ pc |-> "idle", ssid |-> "", wpa_state |-> "COMPLETED",
             dhcp_address |-> "10.0.0.2", networks |-> { [id |-> 0, ssid |-> "home"] },
             net_id |-> -1, last_disabled |-> -1, expired |-> FALSE, added |-> FALSE,
             saved |-> 0, result |-> "none", calls |-> 0 ]
  /\ evt = [ pc |-> "idle", now |-> 0, sampled |-> 0, alarms |-> << >>,
             expired |-> << >>, fired |-> << >>, registered |-> 0, pass |-> 0 ]

Init ==
  /\ registry = {}
  /\ stopping = FALSE
  /\ closing = {}
  /\ outside = {}
  /\ pc = [s \in Sessions |-> "idle"]
  /\ outcome = [s \in Sessions |-> "none"]
  /\ cancelled = [s \in Sessions |-> FALSE]
  /\ conn = [s \in Sessions |-> "none"]
  /\ clientSent = [s \in Sessions |-> << >>]
  /\ nRecv = [s \in Sessions |-> 0]
  /\ run = [s \in Sessions |-> NoRun]
  /\ tmpdir = [s \in Sessions |-> "none"]
  /\ staged = [s \in Sessions |-> {}]
  /\ child = [s \in Sessions |-> "none"]
  /\ returncode = [s \in Sessions |-> 0]
  /\ pendSig = [s \in Sessions |-> 0]
  /\ spawns = [s \in Sessions |-> 0]
  /\ environ = [s \in Sessions |-> << >>]
  /\ stdinBytes = [s \in Sessions |-> << >>]
  /\ stdinClosed = [s \in Sessions |-> FALSE]
  /\ applied = [s \in Sessions |-> << >>]
  /\ nwritten = [s \in Sessions |-> [k \in Streams |-> 0]]
  /\ written = [s \in Sessions |-> [k \in Streams |-> << >>]]
  /\ nread = [s \in Sessions |-> [k \in Streams |-> 0]]
  /\ rd = [s \in Sessions |-> [k \in Streams |-> "none"]]
  /\ rcv = [s \in Sessions |-> "none"]
  /\ sent = [s \in Sessions |-> << >>]
  /\ InitProv

(***************************************************************************)
(* Pure helpers, one per function of server.py.                            *)
(***************************************************************************)
parse_run_msg_any(msg) == msg

parse_run_msg(msg) == IF msg.kind # "run" THEN NoRun ELSE msg

\* msg.get('chunk_size', 1024)
ChunkSize(msg) ==
  IF msg.chunk_size = {} THEN DefaultChunkSize ELSE CHOOSE n \in msg.chunk_size : TRUE

parse_signal_msg_lenient(msg) ==
  IF msg.kind \notin { "signal", "other" } THEN [some |-> FALSE, signum |-> 0]
  ELSE [some |-> TRUE, signum |-> msg.signum]

\* None (some = FALSE) unless the type is 'signal'.
parse_signal_msg(msg) ==
  IF msg.kind # "signal" THEN [some |-> FALSE, signum |-> 0]
  ELSE [some |-> TRUE, signum |-> msg.signum]

parse_stdin_msg_raw(msg) ==
  IF msg.kind # "stdin" THEN [some |-> FALSE, data |-> << >>]
  ELSE [some |-> TRUE, data |-> msg.data]

parse_stdin_msg_nonempty(msg) ==
  IF msg.kind # "stdin" \/ b64decode(msg.data) = << >>
  THEN [some |-> FALSE, data |-> << >>]
  ELSE [some |-> TRUE, data |-> b64decode(msg.data)]

parse_stdin_msg_untyped(msg) == [some |-> TRUE, data |-> b64decode(msg.data)]

\* None (some = FALSE) unless the type is 'stdin'; else the decoded data.
parse_stdin_msg(msg) ==
  IF msg.kind # "stdin" THEN [some |-> FALSE, data |-> << >>]
  ELSE [some |-> TRUE, data |-> b64decode(msg.data)]

stream_msg(data, kind) == [type |-> kind, data |-> b64encode(data), code |-> 0]

exit_msg(code) == [type |-> "exit", data |-> << >>, code |-> code]

\* CONVERT and create_subprocess_exec: process.stdout / process.stderr is a
\* stream exactly when the disposition is 'pipe'.
Piped(msg, k) == IF k = "stdout" THEN msg.stdout = "pipe" ELSE msg.stderr = "pipe"

TargetSeparate(msg, fd) ==
  IF fd = "stdout"
  THEN (IF msg.stdout = "pipe" THEN "stdout" ELSE "null")
  ELSE (IF msg.stderr = "pipe" THEN "stderr" ELSE "null")

\* The pipe a file descriptor of the child is connected to ("null": none).
Target(msg, fd) ==
  IF fd = "stdout" \/ msg.stderr = "stdout"
  THEN (IF msg.stdout = "pipe" THEN "stdout" ELSE "null")
  ELSE (IF msg.stderr = "pipe" THEN "stderr" ELSE "null")

\* open(os.path.join(d, name), 'wb') for one name.
WriteTarget(name) ==
  IF name = "sub/x.py" THEN "error"
  ELSE IF name \in { "/abs.py", "../up.py" } THEN "outside"
  ELSE "inside"

\* TempDirectory: the files written, in order, until the first error.
RECURSIVE TempDirectory(_)
TempDirectory(files) ==
  IF Len(files) = 0 THEN [ok |-> TRUE, inside |-> {}, outside |-> {}]
  ELSE LET t == WriteTarget(Head(files))
           r == TempDirectory(Tail(files))
       IN IF t = "error" THEN [ok |-> FALSE, inside |-> {}, outside |-> {}]
          ELSE [ok |-> r.ok,
                inside |-> r.inside \cup (IF t = "inside" THEN { Head(files) } ELSE {}),
                outside |-> r.outside \cup (IF t = "outside" THEN { Head(files) } ELSE {})]

\* create_subprocess_exec returns a process or raises (no such executable).
start_process_shell(msg) == "started"

start_process(msg) == IF msg.args = "ok" THEN "started" ELSE "raises"

wait_process_shell(s) ==
  IF returncode[s] < 0 THEN 128 - returncode[s] ELSE returncode[s]

\* wait_op.result(): the code wait_process returns.
wait_process(s) == returncode[s]

(***************************************************************************)
(* The socket.                                                             *)
(***************************************************************************)
Closed == Frame("closed", "", {}, "", "", << >>, 0, << >>)

\* ws.receive() has something to return.
MsgReady(s) ==
  \/ conn[s] \in { "going_away", "client_closed" }
  \/ nRecv[s] < Len(clientSent[s])

\* What ws.receive() returns: after the server's own ws.close() a CLOSED
\* message at once, otherwise the frames in order and then CLOSED.
NextMsg(s) ==
  IF conn[s] = "going_away" THEN Closed
  ELSE IF nRecv[s] < Len(clientSent[s]) THEN clientSent[s][nRecv[s] + 1]
  ELSE Closed

Took(s) == IF NextMsg(s) = Closed THEN nRecv[s] ELSE nRecv[s] + 1

receive_json_accepts_binary(m) == m.kind \in { "closed", "nonjson" }

receive_json_accepts_close(m) == m.kind \in { "binary", "nonjson" }

\* ws.receive_json() raises: TypeError when the message is not a text frame
\* (a close, a binary frame), a JSON error when the text is not JSON.
receive_json_raises(m) == m.kind \in { "closed", "binary", "nonjson" }

\* ws.send_json: returns on an open socket; on any other it raises or returns.
SendOutcomes(s) == IF conn[s] = "open" THEN { "ok" } ELSE { "ok", "raise" }

(***************************************************************************)
(* The client and the framework.                                           *)
(***************************************************************************)
\* GET /spawn: ws.prepare, register_websocket, communicate starts.
Connect(s) ==
  /\ pc[s] = "idle"
  /\ ~stopping
  /\ pc' = [pc EXCEPT ![s] = "await_run"]
  /\ conn' = [conn EXCEPT ![s] = "open"]
  /\ registry' = registry \cup { s }
  /\ UNCHANGED << stopping, closing, outside, outcome, cancelled, run, tmpdir, staged,
                  clientSent, nRecv, childVars, stdinVars, taskVars >>
  /\ UNCHANGED provVars

\* The client sends a frame: one of first as its first, one of later after.
ClientSend(s, first, later) ==
  /\ conn[s] = "open"
  /\ Len(clientSent[s]) < MaxFrames
  /\ Len(clientSent[s]) - nRecv[s] < MaxInFlight
  /\ \E f \in (IF clientSent[s] = << >> THEN first ELSE later) :
       clientSent' = [clientSent EXCEPT ![s] = Append(@, f)]
  /\ UNCHANGED << serverVars, handlerVars, conn, nRecv, childVars, stdinVars, taskVars >>
  /\ UNCHANGED provVars

\* A client that does not wait for the server: it sends all its frames at
\* once, one of the sequences seqs.
ClientPipeline(s, seqs) ==
  /\ conn[s] = "open"
  /\ clientSent[s] = << >>
  /\ \E q \in seqs : clientSent' = [clientSent EXCEPT ![s] = q]
  /\ UNCHANGED << serverVars, handlerVars, conn, nRecv, childVars, stdinVars, taskVars >>
  /\ UNCHANGED provVars

\* The client closes the socket or the connection is lost.
ClientClose(s) ==
  /\ conn[s] = "open"
  /\ conn' = [conn EXCEPT ![s] = "client_closed"]
  /\ UNCHANGED << serverVars, handlerVars, clientSent, nRecv, childVars, stdinVars, taskVars >>
  /\ UNCHANGED provVars

(***************************************************************************)
(* The handler: spawn and communicate.                                     *)
(***************************************************************************)
FinishStillRegistered(s, how) ==
  /\ pc' = [pc EXCEPT ![s] = "done"]
  /\ outcome' = [outcome EXCEPT ![s] = how]
  /\ registry' = registry
  /\ conn' = [conn EXCEPT ![s] = IF @ = "open" THEN "finished" ELSE @]

\* The handler leaves communicate and spawn: LogWarning, register_websocket's
\* finally, return ws (the framework then closes the socket).
Finish(s, how) ==
  /\ pc' = [pc EXCEPT ![s] = "done"]
  /\ outcome' = [outcome EXCEPT ![s] = how]
  /\ registry' = registry \ { s }
  /\ conn' = [conn EXCEPT ![s] = IF @ = "open" THEN "finished" ELSE @]

RemoveEveryTempDirectory(s) ==
  /\ tmpdir' = [t \in Sessions |-> IF tmpdir[t] = "none" /\ t # s THEN "none" ELSE "removed"]
  /\ staged' = [t \in Sessions |-> {}]

KeepTempDirectory(s) == UNCHANGED << tmpdir, staged >>

\* Leaving the with TempDirectory block: the directory and its files go.
RemoveTempDirectory(s) ==
  /\ tmpdir' = [tmpdir EXCEPT ![s] = "removed"]
  /\ staged' = [staged EXCEPT ![s] = {}]

\* Lines 183-189: the first message, then the staging of the files.
RecvFirst(s) ==
  /\ pc[s] = "await_run"
  /\ MsgReady(s)
  /\ nRecv' = [nRecv EXCEPT ![s] = Took(s)]
  /\ LET m == NextMsg(s)
         st == TempDirectory(m.files)
     IN IF receive_json_raises(m)
        THEN \* receive_json raises: TypeError or a JSON error
             /\ Finish(s, "error")
             /\ UNCHANGED << run, tmpdir, staged, outside >>
        ELSE IF parse_run_msg(m) = NoRun
        THEN /\ Finish(s, "norun")
             /\ UNCHANGED << run, tmpdir, staged, outside >>
        ELSE /\ run' = [run EXCEPT ![s] = m]
             /\ outside' = outside \cup st.outside
             /\ IF st.ok
                THEN /\ tmpdir' = [tmpdir EXCEPT ![s] = "exists"]
                     /\ staged' = [staged EXCEPT ![s] = st.inside]
                     /\ pc' = [pc EXCEPT ![s] = "starting"]
                     /\ UNCHANGED << outcome, registry, conn >>
                ELSE /\ RemoveTempDirectory(s)
                     /\ Finish(s, "staging_error")
  /\ UNCHANGED << stopping, closing, cancelled, clientSent, childVars, stdinVars, taskVars >>
  /\ UNCHANGED provVars

\* Lines 189-198: start_process returns or raises; on return the tasks are
\* created and the handler awaits asyncio.wait(operations).
StartProcess(s) ==
  /\ pc[s] = "starting"
  /\ IF start_process(run[s]) = "started"
     THEN /\ child' = [child EXCEPT ![s] = "running"]
          /\ spawns' = [spawns EXCEPT ![s] = @ + 1]
          /\ environ' = [environ EXCEPT ![s] = ChainMap(run[s].env, os_environ)]
          /\ rcv' = [rcv EXCEPT ![s] = "running"]
          /\ rd' = [rd EXCEPT ![s] =
                      [k \in Streams |-> IF Piped(run[s], k) THEN "reading" ELSE "none"]]
          /\ pc' = [pc EXCEPT ![s] = "waiting"]
          /\ UNCHANGED << outcome, registry, conn, tmpdir, staged >>
     ELSE /\ RemoveTempDirectory(s)
          /\ Finish(s, "spawn_error")
          /\ UNCHANGED << child, spawns, environ, rcv, rd >>
  /\ UNCHANGED << stopping, closing, outside, cancelled, run, clientSent, nRecv,
                  returncode, pendSig, nwritten, written, stdinVars, nread, sent >>
  /\ UNCHANGED provVars

(***************************************************************************)
(* The child process and the kernel.                                       *)
(***************************************************************************)
\* The child writes its next byte to a file descriptor.
ChildWrite(s, fd) ==
  /\ child[s] = "running"
  /\ nwritten[s][fd] < (IF fd = "stdout" THEN MaxOut ELSE MaxErr)
  /\ nwritten' = [nwritten EXCEPT ![s][fd] = @ + 1]
  /\ LET t == Target(run[s], fd)
     IN written' = IF t = "null" THEN written
                   ELSE [written EXCEPT ![s][t] = Append(@, ChildByte(fd, nwritten[s][fd] + 1))]
  /\ UNCHANGED << serverVars, handlerVars, sockVars, child, returncode, pendSig, spawns,
                  environ, stdinVars, taskVars >>
  /\ UNCHANGED provVars

\* The child exits on its own (not once SIGKILL is pending), or is
\* terminated by the signal it was sent.  Its ends of the pipes close.
ChildExit(s) ==
  /\ child[s] = "running"
  /\ child' = [child EXCEPT ![s] = "exited"]
  /\ \E c \in (IF pendSig[s] = SIGKILL THEN {} ELSE ExitCodes)
               \cup (IF pendSig[s] = 0 THEN {} ELSE { -pendSig[s] }) :
       returncode' = [returncode EXCEPT ![s] = c]
  /\ UNCHANGED << serverVars, handlerVars, sockVars, pendSig, spawns, environ, nwritten,
                  written, stdinVars, taskVars >>
  /\ UNCHANGED provVars

\* The event loop's child watcher reaps the child; process.wait() (wait_op)
\* is done from here on.
Reap(s) ==
  /\ child[s] = "exited"
  /\ child' = [child EXCEPT ![s] = "reaped"]
  /\ UNCHANGED << serverVars, handlerVars, sockVars, returncode, pendSig, spawns, environ,
                  nwritten, written, stdinVars, taskVars >>
  /\ UNCHANGED provVars

DeliverAlways(s, signum) == signum

\* process.kill() / process.send_signal(signum) on a child that is running.
Deliver(s, signum) ==
  IF child[s] = "running" /\ pendSig[s] # SIGKILL THEN signum ELSE pendSig[s]

(***************************************************************************)
(* ReadOp (lines 156-161), one per piped stream.                          *)
(***************************************************************************)
Buffered(s, k) == SubSeq(written[s][k], nread[s][k] + 1, Len(written[s][k]))

AtEOF(s, k) == child[s] \in { "exited", "reaped" } /\ Buffered(s, k) = << >>

stream_read_all(buf, n) == buf

\* stream.read(n): nothing for n = 0, else at most n of the buffered bytes.
stream_read(buf, n) ==
  IF n = 0 THEN << >>
  ELSE SubSeq(buf, 1, IF Len(buf) < n THEN Len(buf) ELSE n)

ReadWithoutAwait(s, k) ==
  /\ rd[s][k] = "reading"
  /\ LET n == ChunkSize(run[s])
         data == stream_read(Buffered(s, k), n)
     IN /\ n = 0 \/ Buffered(s, k) # << >> \/ AtEOF(s, k)
        /\ nread' = [nread EXCEPT ![s][k] = @ + Len(data)]
        /\ IF data = << >>
           THEN /\ rd' = [rd EXCEPT ![s][k] = "done"]
                /\ sent' = sent
           ELSE /\ sent' = [sent EXCEPT ![s] = Append(@, stream_msg(data, k))]
                /\ rd' = rd
  /\ UNCHANGED << serverVars, handlerVars, sockVars, childVars, stdinVars, rcv >>
  /\ UNCHANGED provVars

\* data = await stream.read(chunk_size); break at no data; else send_json
\* hands the frame to the socket and then awaits the drain.
Read(s, k) ==
  /\ rd[s][k] = "reading"
  /\ LET n == ChunkSize(run[s])
         data == stream_read(Buffered(s, k), n)
     IN /\ n = 0 \/ Buffered(s, k) # << >> \/ AtEOF(s, k)
        /\ nread' = [nread EXCEPT ![s][k] = @ + Len(data)]
        /\ IF data = << >>
           THEN /\ rd' = [rd EXCEPT ![s][k] = "done"]
                /\ sent' = sent
           ELSE \E r \in SendOutcomes(s) :
                  IF r = "ok"
                  THEN /\ sent' = [sent EXCEPT ![s] = Append(@, stream_msg(data, k))]
                       /\ rd' = [rd EXCEPT ![s][k] = "draining"]
                  ELSE /\ sent' = sent
                       /\ rd' = [rd EXCEPT ![s][k] = "failed"]
  /\ UNCHANGED << serverVars, handlerVars, sockVars, childVars, stdinVars, rcv >>
  /\ UNCHANGED provVars

\* await ws.send_json(...) returns: the loop goes round.
Drain(s, k) ==
  /\ rd[s][k] = "draining"
  /\ rd' = [rd EXCEPT ![s][k] = "reading"]
  /\ UNCHANGED << serverVars, handlerVars, sockVars, childVars, stdinVars, nread, rcv, sent >>
  /\ UNCHANGED provVars

(***************************************************************************)
(* ReceiveOp (lines 163-180).                                             *)
(***************************************************************************)
Op(idx, op, signum, data) == [idx |-> idx, op |-> op, signum |-> signum, data |-> data]

stdin_write_reopened(s, data) == [stdinBytes EXCEPT ![s] = @ \o data]

\* process.stdin.write(data), line 178: the transport of a pipe that has been
\* closed drops what is written to it.
stdin_write(s, data) ==
  IF stdinClosed[s] THEN stdinBytes ELSE [stdinBytes EXCEPT ![s] = @ \o data]

Receive(s) ==
  /\ rcv[s] = "running"
  /\ MsgReady(s)
  /\ nRecv' = [nRecv EXCEPT ![s] = Took(s)]
  /\ LET m == NextMsg(s)
         i == nRecv[s] + 1
         signal_msg == parse_signal_msg(m)
         stdin_msg == parse_stdin_msg(m)
     IN IF m.kind = "closed"
        THEN \* async for ends
             /\ rcv' = [rcv EXCEPT ![s] = "ended"]
             /\ UNCHANGED << pendSig, stdinVars >>
        ELSE /\ rcv' = rcv
             /\ IF m.kind \in { "binary", "nonjson" }
                THEN \* not TEXT: skipped; json.loads raises: logged
                     UNCHANGED << pendSig, stdinVars >>
                ELSE IF signal_msg.some /\ child[s] = "reaped"
                THEN \* send_signal raises ProcessLookupError: logged, and
                     \* the rest of the loop body is skipped
                     UNCHANGED << pendSig, stdinVars >>
                ELSE /\ pendSig' = IF signal_msg.some
                                   THEN [pendSig EXCEPT ![s] = Deliver(s, signal_msg.signum)]
                                   ELSE pendSig
                     /\ stdinBytes' =
                          IF stdin_msg.some /\ stdin_msg.data # << >>
                          THEN stdin_write(s, stdin_msg.data)
                          ELSE stdinBytes
                     /\ stdinClosed' =
                          IF stdin_msg.some /\ stdin_msg.data = << >>
                          THEN [stdinClosed EXCEPT ![s] = TRUE]
                          ELSE stdinClosed
                     /\ applied' = [applied EXCEPT ![s] =
                          @ \o (IF signal_msg.some
                                THEN << Op(i, "signal", signal_msg.signum, << >>) >>
                                ELSE << >>)
                            \o (IF ~stdin_msg.some THEN << >>
                                ELSE IF stdin_msg.data # << >>
                                THEN << Op(i, "write", 0, stdin_msg.data) >>
                                ELSE << Op(i, "close", 0, << >>) >>)]
  /\ UNCHANGED << serverVars, handlerVars, conn, clientSent, child, returncode, spawns,
                  environ, nwritten, written, nread, rd, sent >>
  /\ UNCHANGED provVars

(***************************************************************************)
(* communicate, lines 190-203: the wait, the cancellation, the exit.       *)
(***************************************************************************)
\* operations: wait_op and a ReadOp for each stream the process has.
operations(s) == { "wait_op" } \cup { k \in Streams : Piped(run[s], k) }

\* A member of operations is done: it returned or it raised.
Done(s, t) ==
  IF t = "wait_op" THEN child[s] = "reaped" ELSE rd[s][t] \in { "done", "failed" }

WaitReturnsFirst(s) == \E t \in operations(s) : Done(s, t)

\* await asyncio.wait(operations) returns.
WaitReturns(s) == \A t \in operations(s) : Done(s, t)

\* receive_op.cancel()
CancelReceiveOp(s) ==
  rcv' = [rcv EXCEPT ![s] = IF @ = "running" THEN "cancelled" ELSE @]

\* await ws.send_json(exit_msg(code)), then out of the with block and out
\* of spawn.  A send that raises is logged by LogWarning.
SendExit(s) ==
  /\ \E r \in SendOutcomes(s) :
       IF r = "ok"
       THEN /\ sent' = [sent EXCEPT ![s] = Append(@, exit_msg(wait_process(s)))]
            /\ Finish(s, "exit_sent")
       ELSE /\ sent' = sent
            /\ Finish(s, "exit_error")
  /\ RemoveTempDirectory(s)

\* asyncio.wait returns; wait_op is done, so wait_process kills nothing.
WaitDone(s) ==
  /\ pc[s] = "waiting"
  /\ WaitReturns(s)
  /\ CancelReceiveOp(s)
  /\ SendExit(s)
  /\ UNCHANGED << stopping, closing, outside, cancelled, run, clientSent, nRecv, childVars,
                  stdinVars, nread, rd >>
  /\ UNCHANGED provVars

\* The framework cancels the handler task, which it does only once the
\* socket is closed or lost.  In asyncio.wait the CancelledError is caught
\* (line 199); at every other await it leaves communicate.
CancelHandler(s) ==
  /\ conn[s] \in { "client_closed", "going_away" }
  /\ pc[s] \in { "await_run", "starting", "waiting", "reaping" }
  /\ IF pc[s] = "waiting"
     THEN /\ cancelled' = [cancelled EXCEPT ![s] = TRUE]
          /\ CancelReceiveOp(s)
          /\ IF child[s] = "reaped"
             THEN /\ SendExit(s)
                  /\ UNCHANGED pendSig
             ELSE \* wait_process: process.kill(), then await wait_op
                  /\ pendSig' = [pendSig EXCEPT ![s] = Deliver(s, SIGKILL)]
                  /\ pc' = [pc EXCEPT ![s] = "reaping"]
                  /\ UNCHANGED << outcome, registry, conn, tmpdir, staged, sent >>
     ELSE /\ Finish(s, "cancelled")
          /\ IF pc[s] = "await_run"
             THEN UNCHANGED << tmpdir, staged >>
             ELSE RemoveTempDirectory(s)
          /\ UNCHANGED << cancelled, rcv, pendSig, sent >>
  /\ UNCHANGED << stopping, closing, outside, run, clientSent, nRecv, child, returncode,
                  spawns, environ, nwritten, written, stdinVars, nread, rd >>
  /\ UNCHANGED provVars

\* wait_process after the kill: await wait_op returns, then the exit.
Reaped(s) ==
  /\ pc[s] = "reaping"
  /\ child[s] = "reaped"
  /\ SendExit(s)
  /\ UNCHANGED << stopping, closing, outside, cancelled, run, clientSent, nRecv, childVars,
                  stdinVars, nread, rd, rcv >>
  /\ UNCHANGED provVars

(***************************************************************************)
(* Shutdown: close_all (lines 59-62) over a snapshot of the registry.      *)
(***************************************************************************)
ShutdownEverySession ==
  /\ ~stopping
  /\ stopping' = TRUE
  /\ closing' = Sessions
  /\ UNCHANGED << registry, outside, handlerVars, sockVars, childVars, stdinVars, taskVars >>
  /\ UNCHANGED provVars

Shutdown ==
  /\ ~stopping
  /\ stopping' = TRUE
  /\ closing' = registry
  /\ UNCHANGED << registry, outside, handlerVars, sockVars, childVars, stdinVars, taskVars >>
  /\ UNCHANGED provVars

\* await ws.close(code=GOING_AWAY) for one socket of the snapshot.
CloseOne(s) ==
  /\ s \in closing
  /\ closing' = closing \ { s }
  /\ conn' = [conn EXCEPT ![s] = IF @ = "open" THEN "going_away" ELSE @]
  /\ UNCHANGED << registry, stopping, outside, handlerVars, clientSent, nRecv, childVars,
                  stdinVars, taskVars >>
  /\ UNCHANGED provVars

(***************************************************************************)
(* Specifications.  Each follows sessions through everything that can      *)
(* happen to them, for one choice of what the clients send.                *)
(***************************************************************************)
\* What a session does whatever its client sends.
Run(s) ==
  \/ Connect(s)
  \/ ClientClose(s)
  \/ RecvFirst(s)
  \/ StartProcess(s)
  \/ \E fd \in Streams : ChildWrite(s, fd)
  \/ ChildExit(s)
  \/ Reap(s)
  \/ \E k \in Streams : Read(s, k)
  \/ \E k \in Streams : Drain(s, k)
  \/ Receive(s)
  \/ WaitDone(s)
  \/ CancelHandler(s)
  \/ Reaped(s)

\* One session, every run request, a client that may send signals.
Next == Run("s1") \/ ClientSend("s1", FirstFrames, { SignalMsg(SIGINT) })

Spec == Init /\ [][Next]_vars

\* SIGKILL ends the child: the kernel sees to it.
Killed(s) == pendSig[s] = SIGKILL /\ ChildExit(s)

\* What the event loop and the kernel guarantee: a task that can take its
\* next step takes it, a killed child dies, a dead child is reaped.  Nothing
\* is assumed of the client, of the child left alone, or of the framework's
\* cancellation of the handler.
Fairness(s) ==
  /\ WF_vars(RecvFirst(s))
  /\ WF_vars(StartProcess(s))
  /\ WF_vars(Killed(s))
  /\ WF_vars(Reap(s))
  /\ \A k \in Streams : WF_vars(Read(s, k)) /\ WF_vars(Drain(s, k))
  /\ WF_vars(Receive(s))
  /\ WF_vars(WaitDone(s))
  /\ WF_vars(Reaped(s))

FairSpec == Spec /\ Fairness("s1")

\* One session, one run request, a client that sends every kind of frame;
\* the child writes nothing.
CmdFirst ==
  { RunMsg("ok", {1}, "pipe", "null", << "main.py" >>),
    SignalMsg(SIGINT), StdinMsg(<< 104 >>), OtherMsg, NonJson, Binary }

NextCmd ==
  \/ Connect("s1")
  \/ ClientSend("s1", CmdFirst, Commands)
  \/ ClientClose("s1")
  \/ RecvFirst("s1")
  \/ StartProcess("s1")
  \/ ChildExit("s1")
  \/ Reap("s1")
  \/ Read("s1", "stdout")
  \/ Receive("s1")
  \/ WaitDone("s1")
  \/ CancelHandler("s1")
  \/ Reaped("s1")

SpecCmd == Init /\ [][NextCmd]_vars

\* Two sessions and the server's shutdown; each client sends one run request
\* for a child that writes nothing, and may close.
QuietRun == RunMsg("ok", {1}, "null", "null", << >>)

NextShutdown ==
  \/ Shutdown
  \/ \E s \in Sessions :
       \/ Connect(s)
       \/ ClientSend(s, { QuietRun }, {})
       \/ ClientClose(s)
       \/ RecvFirst(s)
       \/ StartProcess(s)
       \/ ChildExit(s)
       \/ Reap(s)
       \/ Receive(s)
       \/ WaitDone(s)
       \/ CancelHandler(s)
       \/ Reaped(s)
       \/ CloseOne(s)

SpecShutdown == Init /\ [][NextShutdown]_vars

\* close_all goes on to the next socket of its snapshot; the rest as above.
FairShutdown ==
  /\ SpecShutdown
  /\ \A s \in Sessions :
       /\ WF_vars(CloseOne(s))
       /\ WF_vars(RecvFirst(s))
       /\ WF_vars(StartProcess(s))
       /\ WF_vars(Killed(s))
       /\ WF_vars(Reap(s))
       /\ WF_vars(Receive(s))
       /\ WF_vars(WaitDone(s))
       /\ WF_vars(Reaped(s))

\* One session whose client sends its frames without waiting: a command or
\* a malformed frame ahead of the run request, or after it.
EarlyRun == RunMsg("ok", {1}, "pipe", "null", << "main.py" >>)

EarlySeqs ==
  { << c, EarlyRun >> :
      c \in { SignalMsg(SIGINT), StdinMsg(<< 104 >>), StdinMsg(<< >>), OtherMsg, NonJson } }
  \cup { << EarlyRun >>,
          << EarlyRun, NonJson, StdinMsg(<< 104 >>) >>,
          << EarlyRun, OtherMsg, SignalMsg(SIGINT) >>,
          << EarlyRun, SignalMsg(SIGINT), StdinMsg(<< >>) >> }

NextEarly ==
  \/ Connect("s1")
  \/ ClientPipeline("s1", EarlySeqs)
  \/ ClientClose("s1")
  \/ RecvFirst("s1")
  \/ StartProcess("s1")
  \/ ChildWrite("s1", "stdout")
  \/ ChildExit("s1")
  \/ Reap("s1")
  \/ Read("s1", "stdout")
  \/ Drain("s1", "stdout")
  \/ Receive("s1")
  \/ WaitDone("s1")
  \/ CancelHandler("s1")
  \/ Reaped("s1")

SpecEarly == Init /\ [][NextEarly]_vars

\* Two concurrent sessions.  The client of s1 runs a silent child and sends
\* it a signal; the client of s2 runs a child that writes to stdout and
\* sends it stdin data.  Either client may close at any time.
TwoSeqs(s) ==
  IF s = "s1"
  THEN { << RunMsg("ok", {1}, "null", "null", << "main.py" >>), SignalMsg(SIGINT) >> }
  ELSE { << RunMsg("ok", {1}, "pipe", "null", << "main.py" >>), StdinMsg(<< 104 >>) >> }

NextTwo ==
  \/ \E s \in Sessions :
       \/ Connect(s)
       \/ ClientPipeline(s, TwoSeqs(s))
       \/ ClientClose(s)
       \/ RecvFirst(s)
       \/ StartProcess(s)
       \/ ChildExit(s)
       \/ Reap(s)
       \/ Receive(s)
       \/ WaitDone(s)
       \/ CancelHandler(s)
       \/ Reaped(s)
  \/ ChildWrite("s2", "stdout")
  \/ Read("s2", "stdout")
  \/ Drain("s2", "stdout")

SpecTwo == Init /\ [][NextTwo]_vars

(***************************************************************************)
(* The reference client (client.py, run): the code of the first exit       *)
(* message among those it receives, 127 when the socket closes without.    *)
(***************************************************************************)
RECURSIVE client_run_success(_)
client_run_success(msgs) ==
  IF msgs = << >> THEN 0
  ELSE IF Head(msgs).type = "exit" THEN Head(msgs).code
  ELSE client_run_success(Tail(msgs))

RECURSIVE client_run(_)
client_run(msgs) ==
  IF msgs = << >> THEN 127
  ELSE IF Head(msgs).type = "exit" THEN Head(msgs).code
  ELSE client_run(Tail(msgs))

(***************************************************************************)
(* Vocabulary of the properties.                                           *)
(***************************************************************************)
ExitCount(s) == Cardinality({ i \in 1..Len(sent[s]) : sent[s][i].type = "exit" })

LastSent(s) == sent[s][Len(sent[s])]

\* The payloads of the messages of one kind, decoded and concatenated in
\* the order sent.
RECURSIVE Delivered(_, _)
Delivered(msgs, k) ==
  IF msgs = << >> THEN << >>
  ELSE (IF Head(msgs).type = k THEN b64decode(Head(msgs).data) ELSE << >>)
       \o Delivered(Tail(msgs), k)

IsPrefix(a, b) == Len(a) <= Len(b) /\ a = SubSeq(b, 1, Len(a))

\* The handler of s has returned from spawn.
Ended(s) == pc[s] = "done"

(***************************************************************************)
(* C1.  A session whose child was spawned and exits on its own with a      *)
(* code in 0..255, whose handler is not cancelled and whose socket stays   *)
(* open, sends exactly one exit message; its code is the child's and it    *)
(* is the last message sent.                                               *)
(***************************************************************************)
C1_ExitOnceAndLast ==
  \A s \in Sessions :
    (spawns[s] > 0 /\ ~cancelled[s] /\ conn[s] \in { "open", "finished" }
       /\ returncode[s] \in 0..255)
    => /\ ExitCount(s) <= 1
       /\ ExitCount(s) = 1 => (LastSent(s) = exit_msg(returncode[s]) /\ child[s] = "reaped")
       /\ Ended(s) <=> ExitCount(s) = 1

C1_Witness ==
  \E s \in Sessions :
    /\ Ended(s) /\ conn[s] = "finished" /\ ~cancelled[s]
    /\ returncode[s] = 127
    /\ Len(sent[s]) >= 3
    /\ LastSent(s) = exit_msg(127)

(***************************************************************************)
(* C2.  Whenever an exit message has been sent, process.wait has           *)
(* completed and every ReadOp of the session has reached EOF on its pipe.  *)
(***************************************************************************)
C2_ExitAfterDrain ==
  \A s \in Sessions :
    ExitCount(s) > 0
    => /\ child[s] = "reaped"
       /\ \A k \in Streams :
            Piped(run[s], k) => (rd[s][k] = "done" /\ AtEOF(s, k))

(***************************************************************************)
(* C3.  Per stream, the payloads sent so far, concatenated in the order    *)
(* sent, are a prefix of what the child wrote into that pipe, and are all  *)
(* of it once the exit message has been sent after the child exited on     *)
(* its own.                                                                *)
(***************************************************************************)
C3_StreamInOrderAndComplete ==
  \A s \in Sessions : \A k \in Streams :
    /\ IsPrefix(Delivered(sent[s], k), written[s][k])
    /\ (ExitCount(s) > 0 /\ returncode[s] \in 0..255)
       => Delivered(sent[s], k) = written[s][k]

(***************************************************************************)
(* C5.  When the handler of a session that spawned a child has finished,   *)
(* the child has terminated and been reaped and no ReadOp is still         *)
(* reading one of its pipes.                                               *)
(***************************************************************************)
C5_NoChildOutlivesSession ==
  \A s \in Sessions :
    (Ended(s) /\ spawns[s] > 0)
    => /\ child[s] = "reaped"
       /\ \A k \in Streams : rd[s][k] \notin { "reading", "draining" }

(***************************************************************************)
(* C8.  Once a session has ended, however it ended, its staging directory  *)
(* does not exist.                                                         *)
(***************************************************************************)
C8_StagingRemoved ==
  \A s \in Sessions : Ended(s) => (tmpdir[s] # "exists" /\ staged[s] = {})

C8_Witness ==
  \E s \in Sessions :
    Ended(s) /\ tmpdir[s] = "removed" /\ outcome[s] = "exit_error" /\ cancelled[s]

(***************************************************************************)
(* C10.  As claimed: a session whose spawn failed has sent one exit        *)
(* message with code 127.                                                  *)
(***************************************************************************)
C10_SpawnFailureSends127 ==
  \A s \in Sessions :
    outcome[s] = "spawn_error" => sent[s] = << exit_msg(127) >>

(***************************************************************************)
(* C10, amended.  A session whose executable cannot be started ends        *)
(* without a child and without having sent any message, its staging        *)
(* directory removed and its socket out of the registry; the reference     *)
(* client, which sees the socket close without an exit message, reports    *)
(* 127.                                                                    *)
(***************************************************************************)
C10_SpawnFailureSendsNothing ==
  \A s \in Sessions :
    (Ended(s) /\ tmpdir[s] # "none" /\ run[s].args = "missing")
    => /\ sent[s] = << >>
       /\ child[s] = "none"
       /\ tmpdir[s] = "removed"
       /\ s \notin registry
       /\ client_run(sent[s]) = 127

C10_Witness ==
  \E s \in Sessions : outcome[s] = "spawn_error" /\ conn[s] = "finished"

(***************************************************************************)
(* C6.  Once the client has closed the socket while the child is running,  *)
(* the child is eventually terminated and the session eventually ends.     *)
(***************************************************************************)
C6_DisconnectKillsChild ==
  \A s \in Sessions :
    (conn[s] = "client_closed" /\ child[s] = "running")
      ~> (child[s] # "running" /\ Ended(s))

(***************************************************************************)
(* C7.  Once the server has begun shutdown, the child of every session     *)
(* that is running is eventually terminated.                               *)
(***************************************************************************)
C7_ShutdownKillsChildren ==
  \A s \in Sessions :
    (stopping /\ conn[s] = "going_away" /\ child[s] = "running") ~> (child[s] # "running")

\* The payload the client encoded into a stdin frame.
PayloadOf(f) == CHOOSE p \in Payloads : b64encode(p) = f.data

\* The frames ReceiveOp has taken: all but the run message.
TakenByReceiveOp(s) == SubSeq(clientSent[s], 2, nRecv[s])

RECURSIVE StdinExpected(_)
StdinExpected(frames) ==
  IF frames = << >> THEN << >>
  ELSE IF Head(frames).kind # "stdin" THEN StdinExpected(Tail(frames))
  ELSE IF PayloadOf(Head(frames)) = << >> THEN << >>
  ELSE PayloadOf(Head(frames)) \o StdinExpected(Tail(frames))

Matches(op, f) ==
  \/ op.op = "signal" /\ f.kind = "signal" /\ op.signum = f.signum
  \/ op.op = "write" /\ f.kind = "stdin" /\ op.data = PayloadOf(f) /\ op.data # << >>
  \/ op.op = "close" /\ f.kind = "stdin" /\ PayloadOf(f) = << >>

(***************************************************************************)
(* C4.  The commands ReceiveOp applies to the child are the signal and     *)
(* stdin commands the client sent after its run message, in the order      *)
(* sent, and the bytes written to the child's stdin are the payloads the   *)
(* client sent before its first empty one, concatenated in that order.     *)
(***************************************************************************)
C4_CommandsInOrder ==
  \A s \in Sessions :
    spawns[s] > 0
    => /\ \A j \in 1..Len(applied[s]) :
            /\ applied[s][j].idx \in 2..nRecv[s]
            /\ Matches(applied[s][j], clientSent[s][applied[s][j].idx])
            /\ j > 1 => applied[s][j - 1].idx < applied[s][j].idx
       /\ \A i \in 2..nRecv[s] :
            \/ \E j \in 1..Len(applied[s]) : applied[s][j].idx = i
            \/ clientSent[s][i].kind \notin { "signal", "stdin" }
            \/ clientSent[s][i].kind = "signal" /\ child[s] = "reaped"
       /\ stdinBytes[s] = StdinExpected(TakenByReceiveOp(s))

C4_Witness ==
  \E s \in Sessions :
    /\ Len(applied[s]) = 2
    /\ applied[s][1].op = "signal"
    /\ applied[s][2].op = "write"
    /\ stdinBytes[s] = << 255, 0 >>

\* A step in which ReceiveOp takes a run message from the socket.
LaterRunTaken(s) ==
  /\ rcv[s] = "running"
  /\ nRecv'[s] = nRecv[s] + 1
  /\ clientSent[s][nRecv[s] + 1].kind = "run"

(***************************************************************************)
(* C9.  A session never spawns more than one child, and a step in which    *)
(* ReceiveOp takes a later run message changes neither the child, nor      *)
(* its stdin, nor the signals sent to it, nor the staging directory.       *)
(***************************************************************************)
C9_LaterRunIgnored ==
  /\ [](\A s \in Sessions : spawns[s] <= 1)
  /\ [][\A s \in Sessions :
          LaterRunTaken(s)
          => /\ spawns'[s] = spawns[s]
             /\ child'[s] = child[s]
             /\ pendSig'[s] = pendSig[s]
             /\ stdinBytes'[s] = stdinBytes[s]
             /\ stdinClosed'[s] = stdinClosed[s]
             /\ applied'[s] = applied[s]
             /\ tmpdir'[s] = tmpdir[s]
             /\ staged'[s] = staged[s]]_vars

C9_Witness ==
  \E s \in Sessions :
    /\ spawns[s] = 1
    /\ child[s] = "running"
    /\ ~stdinClosed[s]
    /\ \E i \in 2..nRecv[s] : clientSent[s][i].kind = "run"

\* The first frame of the session has been taken and was of one of kinds.
FirstTaken(s, kinds) == nRecv[s] >= 1 /\ clientSent[s][1].kind \in kinds

(***************************************************************************)
(* C11.  As claimed: a signal or stdin message taken before any run        *)
(* message is dropped and the session goes on waiting for its run          *)
(* message: communicate does not return because of it.                     *)
(***************************************************************************)
C11_EarlyCommandDropped ==
  \A s \in Sessions :
    FirstTaken(s, { "signal", "stdin" }) => outcome[s] # "norun"

(***************************************************************************)
(* C11, amended.  A signal or stdin message that arrives as the first      *)
(* message of a session has no effect on any child and ends the session:   *)
(* communicate returns, nothing is staged, spawned or sent, the socket     *)
(* leaves the registry, and no later frame, a run message included, is     *)
(* ever taken.                                                             *)
(***************************************************************************)
C11_EarlyCommandEndsSession ==
  \A s \in Sessions :
    FirstTaken(s, { "signal", "stdin" })
    => /\ Ended(s) /\ outcome[s] = "norun"
       /\ nRecv[s] = 1
       /\ spawns[s] = 0 /\ child[s] = "none" /\ tmpdir[s] = "none"
       /\ applied[s] = << >> /\ pendSig[s] = 0
       /\ stdinBytes[s] = << >> /\ ~stdinClosed[s]
       /\ sent[s] = << >>
       /\ s \notin registry

C11_Witness ==
  \E s \in Sessions :
    /\ Ended(s) /\ conn[s] = "finished"
    /\ clientSent[s] = << StdinMsg(<< 104 >>), EarlyRun >>
    /\ nRecv[s] = 1

\* The positions in sent[s] of the messages of the given types.
SentAt(s, types) == { i \in 1..Len(sent[s]) : sent[s][i].type \in types }

\* The session ran to its end with the socket open and uncancelled.
CleanEnd(s) == outcome[s] = "exit_sent" /\ conn[s] = "finished" /\ ~cancelled[s]

(***************************************************************************)
(* C12.  A stderr message is sent only when the stderr disposition is      *)
(* pipe and a stdout message only when the stdout disposition is pipe;     *)
(* with stderr=stdout everything the child wrote to either descriptor has  *)
(* been sent as stdout by the time a session ends cleanly.                 *)
(***************************************************************************)
C12_KindsFollowDisposition ==
  \A s \in Sessions :
    /\ \A i \in SentAt(s, { "stderr" }) : run[s].stderr = "pipe"
    /\ \A i \in SentAt(s, { "stdout" }) : run[s].stdout = "pipe"
    /\ (CleanEnd(s) /\ run[s].stdout = "pipe" /\ run[s].stderr = "stdout"
          /\ ChunkSize(run[s]) > 0)
       => Len(Delivered(sent[s], "stdout")) = nwritten[s]["stdout"] + nwritten[s]["stderr"]

C12_Witness ==
  \E s \in Sessions :
    /\ run[s].stderr = "stdout"
    /\ \E i \in SentAt(s, { "stdout" }) :
         b64decode(sent[s][i].data) = << ChildByte("stderr", 1) >>

(***************************************************************************)
(* C13.  At most one exit message is sent in a session and no stdout or    *)
(* stderr message is sent after it.                                        *)
(***************************************************************************)
C13_NothingAfterExit ==
  \A s \in Sessions :
    /\ Cardinality(SentAt(s, { "exit" })) <= 1
    /\ \A i \in SentAt(s, { "exit" }) : \A j \in SentAt(s, Streams) : j < i

(***************************************************************************)
(* C14.  No file is ever written outside a staging directory, and a run    *)
(* request naming a file outside it spawns no child and is answered with   *)
(* exit 127.                                                               *)
(***************************************************************************)
C14_TraversalRefused ==
  /\ outside = {}
  /\ \A s \in Sessions :
       (\E i \in 1..Len(run[s].files) : WriteTarget(run[s].files[i]) = "outside")
       => /\ spawns[s] = 0
          /\ Ended(s) => sent[s] = << exit_msg(127) >>

(***************************************************************************)
(* C16.  As claimed: the code of every exit message is non-negative, and   *)
(* is the child's exit status when that is in 0..255.                      *)
(***************************************************************************)
C16_ExitCodeNonNegative ==
  \A s \in Sessions : \A i \in SentAt(s, { "exit" }) :
    /\ sent[s][i].code >= 0
    /\ returncode[s] \in 0..255 => sent[s][i].code = returncode[s]

(***************************************************************************)
(* C16, amended.  The code of every exit message is the return code of     *)
(* the reaped child: its exit status when it exited on its own, and -N     *)
(* when it was terminated by signal N, whether a client's or the server's  *)
(* kill.                                                                   *)
(***************************************************************************)
C16_ExitCodeIsReturnCode ==
  \A s \in Sessions : \A i \in SentAt(s, { "exit" }) :
    /\ child[s] = "reaped"
    /\ sent[s][i].code = returncode[s]
    /\ \/ sent[s][i].code \in ExitCodes
       \/ pendSig[s] > 0 /\ sent[s][i].code = -pendSig[s]

C16_Witness ==
  \E s \in Sessions :
    cancelled[s] /\ \E i \in SentAt(s, { "exit" }) : sent[s][i] = exit_msg(-SIGKILL)

(***************************************************************************)
(* C17.  Every stdout or stderr message carries at least one byte and at   *)
(* most chunk_size bytes, chunk_size being the run request's or 1024.      *)
(***************************************************************************)
C17_ChunkBounded ==
  \A s \in Sessions : \A i \in SentAt(s, Streams) :
    Len(b64decode(sent[s][i].data)) \in 1..ChunkSize(run[s])

C17_Witness ==
  \E s \in Sessions :
    /\ ChunkSize(run[s]) = 1
    /\ Len(written[s]["stdout"]) = 2
    /\ Cardinality(SentAt(s, { "stdout" })) = 2

(***************************************************************************)
(* C18.  The environment of the child gives every name of the request's    *)
(* env the request's value, and every other name of the server's           *)
(* environment the server's value.                                         *)
(***************************************************************************)
C18_ChildEnvironment ==
  \A s \in Sessions :
    spawns[s] > 0
    => /\ DOMAIN environ[s] = DOMAIN run[s].env \cup DOMAIN os_environ
       /\ \A n \in DOMAIN run[s].env : environ[s][n] = run[s].env[n]
       /\ \A n \in DOMAIN os_environ \ DOMAIN run[s].env : environ[s][n] = os_environ[n]

C18_Witness ==
  \E s \in Sessions :
    /\ spawns[s] > 0
    /\ "HOME" \in DOMAIN environ[s] /\ environ[s]["HOME"] = ""
    /\ "PATH" \in DOMAIN environ[s] /\ environ[s]["PATH"] = "/usr/bin"

(***************************************************************************)
(* C19.  The child's stdin is closed exactly when a stdin message with an  *)
(* empty payload has been taken; at that point the payloads of the stdin   *)
(* messages taken before it have been written.                             *)
(***************************************************************************)
C19_EmptyStdinCloses ==
  \A s \in Sessions :
    spawns[s] > 0
    => /\ stdinClosed[s] <=>
            \E i \in 2..nRecv[s] :
              clientSent[s][i].kind = "stdin" /\ PayloadOf(clientSent[s][i]) = << >>
       /\ \A j \in 1..Len(applied[s]) :
            applied[s][j].op = "close"
            => stdinBytes[s] = StdinExpected(SubSeq(clientSent[s], 2, applied[s][j].idx - 1))

C19_Witness ==
  \E s \in Sessions :
    /\ stdinClosed[s]
    /\ stdinBytes[s] = << 104 >>
    /\ Len(applied[s]) = 2 /\ applied[s][2].op = "close"

\* A step in which ReceiveOp takes a signal message, the child having exited.
LateSignalTaken(s) ==
  /\ rcv[s] = "running"
  /\ nRecv'[s] = nRecv[s] + 1
  /\ clientSent[s][nRecv[s] + 1].kind = "signal"
  /\ child[s] \in { "exited", "reaped" }

(***************************************************************************)
(* C20.  A signal message taken after the child has exited changes         *)
(* nothing: ReceiveOp goes on, the handler stays where it is, and the      *)
(* exit message carries the child's own return code.                       *)
(***************************************************************************)
C20_LateSignalIgnored ==
  /\ [][\A s \in Sessions :
          LateSignalTaken(s)
          => /\ rcv'[s] = "running"
             /\ pc'[s] = pc[s] /\ outcome'[s] = outcome[s]
             /\ child'[s] = child[s] /\ returncode'[s] = returncode[s]
             /\ pendSig'[s] = pendSig[s]
             /\ sent'[s] = sent[s]]_vars
  /\ [](\A s \in Sessions : \A i \in SentAt(s, { "exit" }) :
          sent[s][i].code = returncode[s])

C20_Witness ==
  \E s \in Sessions :
    /\ \E i \in 2..nRecv[s] :
         /\ clientSent[s][i].kind = "signal"
         /\ \A j \in 1..Len(applied[s]) : applied[s][j].idx # i
    /\ pendSig[s] = 0
    /\ outcome[s] = "exit_sent"
    /\ LastSent(s) = exit_msg(127)

\* A step in which ReceiveOp takes a frame that is not JSON or whose type
\* is unknown.
BadFrameTaken(s) ==
  /\ rcv[s] = "running"
  /\ nRecv'[s] = nRecv[s] + 1
  /\ clientSent[s][nRecv[s] + 1].kind \in { "nonjson", "other" }

(***************************************************************************)
(* C15.  As claimed: a frame that is not JSON, or whose type is missing    *)
(* or unknown, never ends the session, in whatever state it is taken.      *)
(***************************************************************************)
C15_BadFrameNeverEndsSession ==
  \A s \in Sessions :
    FirstTaken(s, { "nonjson", "other" }) => outcome[s] \notin { "error", "norun" }

(***************************************************************************)
(* C15, amended.  Once the child has been started, a frame that is not     *)
(* JSON or whose type is missing or unknown is dropped by ReceiveOp: the   *)
(* child, its stdin, ReceiveOp and the handler are as before, and the      *)
(* stdin messages taken after it are applied.  As the first frame of a     *)
(* session it ends the session: nothing is spawned and nothing is sent.    *)
(***************************************************************************)
C15_BadFrameDroppedAfterRun ==
  /\ [][\A s \in Sessions :
          BadFrameTaken(s)
          => /\ rcv'[s] = "running"
             /\ pc'[s] = pc[s] /\ outcome'[s] = outcome[s]
             /\ child'[s] = child[s] /\ pendSig'[s] = pendSig[s]
             /\ stdinBytes'[s] = stdinBytes[s] /\ stdinClosed'[s] = stdinClosed[s]
             /\ applied'[s] = applied[s]]_vars
  /\ [](\A s \in Sessions : \A i \in 2..nRecv[s] :
          clientSent[s][i].kind = "stdin"
          => \E j \in 1..Len(applied[s]) : applied[s][j].idx = i)
  /\ [](\A s \in Sessions :
          FirstTaken(s, { "nonjson", "other" })
          => /\ Ended(s) /\ nRecv[s] = 1
             /\ outcome[s] = (IF clientSent[s][1].kind = "nonjson" THEN "error" ELSE "norun")
             /\ spawns[s] = 0 /\ tmpdir[s] = "none" /\ sent[s] = << >>)

C15_Witness ==
  \E s \in Sessions :
    /\ clientSent[s] = << EarlyRun, NonJson, StdinMsg(<< 104 >>) >>
    /\ nRecv[s] = 3
    /\ child[s] = "running" /\ rcv[s] = "running"
    /\ stdinBytes[s] = << 104 >>

(***************************************************************************)
(* C21.  close_all takes the sockets registered when the shutdown begins,  *)
(* closes with GOING_AWAY only sockets of that snapshot whose session has  *)
(* not been torn down, and gets through all of them.                       *)
(***************************************************************************)
C21_CloseAllRegistered ==
  /\ [][(~stopping /\ stopping') => closing' = registry]_vars
  /\ [][\A s \in Sessions :
          (conn[s] # "going_away" /\ conn'[s] = "going_away")
          => (stopping /\ s \in closing /\ s \in registry /\ ~Ended(s))]_vars
  /\ [](stopping => \A s \in registry \ closing : conn[s] # "open")
  /\ (stopping ~> (closing = {}))

C21_Witness ==
  /\ stopping /\ closing = {}
  /\ conn["s1"] = "going_away"
  /\ Ended("s2") /\ conn["s2"] = "finished"

(***************************************************************************)
(* C24.  The registry holds exactly the sessions whose handler is between  *)
(* the WebSocket upgrade and its return, however it returns.               *)
(***************************************************************************)
C24_RegistryIsLiveSessions ==
  registry = { s \in Sessions : pc[s] \notin { "idle", "done" } }

C24_Witness ==
  /\ registry = { "s2" }
  /\ Ended("s1") /\ outcome["s1"] = "cancelled"
  /\ child["s2"] = "running"

\* The handler has tried to send the exit message.
ExitAttempted(s) == outcome[s] \in { "exit_sent", "exit_error" }

(***************************************************************************)
(* C22.  In a session whose client has disconnected, no exit message is    *)
(* sent or attempted, and when the session has ended the child has been    *)
(* reaped and the staging directory removed.                               *)
(***************************************************************************)
C22_NoExitAfterDisconnect ==
  \A s \in Sessions :
    (conn[s] = "client_closed" /\ spawns[s] > 0)
    => /\ ~ExitAttempted(s)
       /\ Ended(s) => (child[s] = "reaped" /\ tmpdir[s] = "removed")

\* A step in which ReceiveOp takes a binary frame.
BinaryTaken(s) ==
  /\ rcv[s] = "running"
  /\ nRecv'[s] = nRecv[s] + 1
  /\ clientSent[s][nRecv[s] + 1].kind = "binary"

(***************************************************************************)
(* C23.  As claimed: once a binary frame has been taken the server has     *)
(* closed the connection, and takes no frame after it.                     *)
(***************************************************************************)
C23_BinaryRejected ==
  \A s \in Sessions : \A i \in 1..nRecv[s] :
    clientSent[s][i].kind = "binary" => (conn[s] # "open" /\ nRecv[s] = i)

(***************************************************************************)
(* C23, amended.  A binary frame taken by ReceiveOp is skipped: the        *)
(* socket, the child, its stdin, ReceiveOp and the handler are as before   *)
(* and nothing is sent.  As the first frame of a session it makes          *)
(* receive_json raise: the session ends as on any error, nothing spawned   *)
(* and nothing sent.                                                       *)
(***************************************************************************)
C23_BinarySkipped ==
  /\ [][\A s \in Sessions :
          BinaryTaken(s)
          => /\ conn'[s] = conn[s] /\ rcv'[s] = "running"
             /\ pc'[s] = pc[s] /\ outcome'[s] = outcome[s]
             /\ child'[s] = child[s] /\ pendSig'[s] = pendSig[s]
             /\ stdinBytes'[s] = stdinBytes[s] /\ stdinClosed'[s] = stdinClosed[s]
             /\ applied'[s] = applied[s]
             /\ sent'[s] = sent[s]]_vars
  /\ [](\A s \in Sessions :
          FirstTaken(s, { "binary" })
          => /\ Ended(s) /\ outcome[s] = "error" /\ nRecv[s] = 1
             /\ spawns[s] = 0 /\ tmpdir[s] = "none" /\ sent[s] = << >>)

C23_Witness ==
  \E s \in Sessions :
    /\ conn[s] = "open" /\ child[s] = "running" /\ rcv[s] = "running"
    /\ nRecv[s] = 3
    /\ clientSent[s][2] = Binary
    /\ clientSent[s][3] = StdinMsg(<< 104 >>)
    /\ stdinBytes[s] = << 104 >>

(***************************************************************************)
(* C25.  While the child is running or not yet reaped, the staging         *)
(* directory exists and holds every file of the run request.               *)
(***************************************************************************)
C25_StagingOutlivesChild ==
  \A s \in Sessions :
    child[s] \in { "running", "exited" }
    => /\ tmpdir[s] = "exists"
       /\ staged[s] = { run[s].files[i] : i \in 1..Len(run[s].files) }

(***************************************************************************)
(* C28.  In a session in which a ReadOp ended with an error, the exit      *)
(* message is sent or attempted only once the child has been reaped and    *)
(* the other ReadOp has ended.                                             *)
(***************************************************************************)
C28_ExitAfterOtherOps ==
  \A s \in Sessions :
    ((\E k \in Streams : rd[s][k] = "failed") /\ ExitAttempted(s))
    => /\ child[s] = "reaped"
       /\ \A k \in Streams : Piped(run[s], k) => rd[s][k] \in { "done", "failed" }

(***************************************************************************)
(* C29.  No task of a session ends with an exception that nothing          *)
(* catches, and a session that has ended has left the registry and has no  *)
(* staging directory.                                                      *)
(***************************************************************************)
C29_NoUnhandledException ==
  \A s \in Sessions :
    /\ \A k \in Streams : rd[s][k] # "failed"
    /\ Ended(s) => (s \notin registry /\ tmpdir[s] # "exists")

(***************************************************************************)
(* C30.  A session whose handler ends without having taken any frame       *)
(* ends on receive_json raising or on cancellation, with no staging        *)
(* directory, no child and no message sent; and a session waiting for its  *)
(* first frame on a socket the client has closed does end.                 *)
(***************************************************************************)
C30_CloseBeforeRun ==
  /\ [](\A s \in Sessions :
          (Ended(s) /\ nRecv[s] = 0)
          => /\ outcome[s] \in { "error", "cancelled" }
             /\ run[s] = NoRun
             /\ tmpdir[s] = "none" /\ staged[s] = {}
             /\ spawns[s] = 0 /\ child[s] = "none"
             /\ sent[s] = << >>
             /\ s \notin registry)
  /\ \A s \in Sessions :
       (pc[s] = "await_run" /\ conn[s] = "client_closed" /\ nRecv[s] = Len(clientSent[s]))
         ~> (Ended(s) /\ nRecv[s] = 0)

C30_Witness ==
  \E s \in Sessions :
    /\ Ended(s) /\ nRecv[s] = 0
    /\ conn[s] = "client_closed" /\ outcome[s] = "error"

(***************************************************************************)
(* C26.  A ReadOp that has read a chunk awaits its send before it reads    *)
(* again: a read happens only in a ReadOp that is not awaiting a send and  *)
(* leaves it awaiting one (or ended by the send raising), and no byte is   *)
(* read and not handed to the socket but for a chunk whose send raised.    *)
(***************************************************************************)
C26_OneChunkInFlight ==
  /\ [][\A s \in Sessions : \A k \in Streams :
          nread'[s][k] # nread[s][k]
          => /\ rd[s][k] = "reading"
             /\ rd'[s][k] \in { "draining", "failed" }]_vars
  /\ [](\A s \in Sessions : \A k \in Streams :
          /\ nread[s][k] >= Len(Delivered(sent[s], k))
          /\ nread[s][k] - Len(Delivered(sent[s], k))
               <= (IF rd[s][k] = "failed" THEN ChunkSize(run[s]) ELSE 0))

C26_Witness ==
  \E s \in Sessions :
    /\ rd[s]["stdout"] = "draining"
    /\ ChunkSize(run[s]) = 1
    /\ Len(Buffered(s, "stdout")) = 1
    /\ Cardinality(SentAt(s, { "stdout" })) = 1

\* Everything that belongs to one session.
SessionState(s) ==
  << pc[s], outcome[s], cancelled[s], conn[s], clientSent[s], nRecv[s], run[s],
     tmpdir[s], staged[s], child[s], returncode[s], pendSig[s], spawns[s], environ[s],
     stdinBytes[s], stdinClosed[s], applied[s], nwritten[s], written[s], nread[s],
     rd[s], rcv[s], sent[s] >>

(***************************************************************************)
(* C27.  With two concurrent sessions, no step changes anything of two     *)
(* sessions at once; the commands applied to a child are those its own     *)
(* client sent and the output sent on a socket is that of its own child:   *)
(* the signal of s1's client never reaches s2's child, the stdin data of   *)
(* s2's client never reaches s1's child, and s1's socket carries no        *)
(* output.                                                                 *)
(***************************************************************************)
C27_SessionsIsolated ==
  /\ [][\A s, t \in Sessions :
          (s # t /\ SessionState(s)' # SessionState(s))
          => SessionState(t)' = SessionState(t)]_vars
  /\ [](\A s \in Sessions :
          /\ \A j \in 1..Len(applied[s]) :
               /\ applied[s][j].idx \in 2..nRecv[s]
               /\ Matches(applied[s][j], clientSent[s][applied[s][j].idx])
          /\ \A k \in Streams : IsPrefix(Delivered(sent[s], k), written[s][k]))
  /\ [](/\ pendSig["s2"] # SIGINT
        /\ stdinBytes["s1"] = << >>
        /\ SentAt("s1", Streams) = {})

C27_Witness ==
  /\ Ended("s1") /\ cancelled["s1"] /\ tmpdir["s1"] = "removed"
  /\ child["s1"] = "reaped" /\ returncode["s1"] = -SIGKILL
  /\ child["s2"] = "running" /\ tmpdir["s2"] = "exists"
  /\ stdinBytes["s2"] = << 104 >>
  /\ SentAt("s2", { "stdout" }) # {}

\* What the client has received when it has received n of the messages sent.
Received(s, n) == SubSeq(sent[s], 1, n)

HasExit(msgs) == \E i \in 1..Len(msgs) : msgs[i].type = "exit"

FirstExit(msgs) ==
  CHOOSE i \in 1..Len(msgs) :
    msgs[i].type = "exit" /\ \A j \in 1..(i - 1) : msgs[j].type # "exit"

(***************************************************************************)
(* C31.  As claimed: the reference client returns 127 exactly when the     *)
(* socket closes without an exit message among what it has received.       *)
(***************************************************************************)
C31_Returns127OnlyWithoutExit ==
  \A s \in Sessions : \A n \in 0..Len(sent[s]) :
    client_run(Received(s, n)) = 127 <=> ~HasExit(Received(s, n))

(***************************************************************************)
(* C31, amended.  The reference client returns the code of the first exit  *)
(* message it receives, whatever follows that message, and 127 when the    *)
(* socket closes without one; a session that ends on a first message that  *)
(* is not a run request, on a staging error or on a spawn failure has      *)
(* sent nothing, and the client reports it as 127.  An exit message may    *)
(* itself carry 127, so 127 does not tell the two apart.                   *)
(***************************************************************************)
C31_ClientReportsFirstExit ==
  \A s \in Sessions :
    /\ \A n \in 0..Len(sent[s]) :
         LET got == Received(s, n)
         IN IF HasExit(got)
            THEN /\ client_run(got) = got[FirstExit(got)].code
                 /\ client_run(got) = client_run(SubSeq(got, 1, FirstExit(got)))
            ELSE client_run(got) = 127
    /\ outcome[s] \in { "error", "norun", "staging_error", "spawn_error" }
       => (sent[s] = << >> /\ client_run(sent[s]) = 127)

C31_Witness ==
  \E s \in Sessions :
    /\ outcome[s] = "norun" /\ conn[s] = "finished"
    /\ clientSent[s][1].kind = "signal"
    /\ client_run(sent[s]) = 127

(***************************************************************************)
(* C32.  A ReadOp that has returned has reached EOF on its pipe; when a    *)
(* session ends cleanly every byte the child wrote to a piped stream has   *)
(* been sent, and the exit message has been sent.                          *)
(***************************************************************************)
C32_ReadOpEndsOnlyAtEOF ==
  \A s \in Sessions :
    /\ \A k \in Streams :
         Piped(run[s], k)
         => /\ rd[s][k] = "done" => AtEOF(s, k)
            /\ CleanEnd(s) => Delivered(sent[s], k) = written[s][k]
    /\ CleanEnd(s) => ExitCount(s) = 1

(***************************************************************************)
(* C33.  Once a ReadOp has ended with an error while the child is          *)
(* running, the child is eventually terminated or the session ends.        *)
(***************************************************************************)
C33_FailedReadOpEndsSession ==
  \A s \in Sessions :
    ((\E k \in Streams : rd[s][k] = "failed") /\ child[s] = "running")
      ~> (child[s] # "running" \/ Ended(s))

\* A step in which ReceiveOp takes a frame of one kind after stdin was closed.
TakenAfterClose(s, kind) ==
  /\ rcv[s] = "running"
  /\ stdinClosed[s]
  /\ nRecv'[s] = nRecv[s] + 1
  /\ clientSent[s][nRecv[s] + 1].kind = kind

(***************************************************************************)
(* C34.  Once an empty stdin message has closed the child's stdin, a       *)
(* later stdin message, empty or not, gives the child no bytes, leaves     *)
(* stdin closed, and stops neither ReceiveOp nor the session; a later      *)
(* signal message is still sent to a child that is running.                *)
(***************************************************************************)
C34_StdinAfterCloseDropped ==
  [][\A s \in Sessions :
       /\ TakenAfterClose(s, "stdin")
          => /\ stdinBytes'[s] = stdinBytes[s]
             /\ stdinClosed'[s]
             /\ rcv'[s] = "running"
             /\ pc'[s] = pc[s] /\ outcome'[s] = outcome[s]
             /\ child'[s] = child[s] /\ sent'[s] = sent[s]
       /\ (TakenAfterClose(s, "signal") /\ child[s] = "running" /\ pendSig[s] # SIGKILL)
          => /\ pendSig'[s] = clientSent[s][nRecv[s] + 1].signum
             /\ rcv'[s] = "running"
             /\ pc'[s] = pc[s]]_vars

C34_Witness ==
  \E s \in Sessions :
    /\ nRecv[s] = 3
    /\ clientSent[s][2].kind = "stdin" /\ PayloadOf(clientSent[s][2]) = << >>
    /\ clientSent[s][3].kind = "stdin" /\ PayloadOf(clientSent[s][3]) = << 104 >>
    /\ stdinClosed[s] /\ stdinBytes[s] = << >>
    /\ rcv[s] = "running" /\ pc[s] = "waiting"

(***************************************************************************)
(* bt_prov_server.py.  The main thread runs main's loop over               *)
(* BtProvServer.Run; the trigger calls _Triggered on a thread of its own;  *)
(* SIGINT and SIGTERM run _SignalHandler on the main thread, between two   *)
(* of its bytecodes, and the main thread goes on only when the handler     *)
(* has returned.  The locks are threading.Lock: not reentrant.             *)
(***************************************************************************)
MaxSignals == 2
MaxPresses == 2

\* The main thread is not inside a signal handler or a call of Close.
MainRuns == prov.hpc = "none"

\* Condition.notifyAll under the lock: wakes the thread that is waiting.
NotifyAll(p) == [p EXCEPT !.notified = (@ \/ p.mpc = "wt_waiting")]

\* _WaitForTrigger, lines 183-192, with HasTrigger() true.
WaitForTrigger ==
  /\ MainRuns
  /\ \/ /\ prov.mpc = "wt_acquire" /\ prov.lock = "none"
        /\ prov' = [prov EXCEPT !.lock = "main", !.mpc = "wt_check"]
     \/ /\ prov.mpc = "wt_check"
        /\ prov' = IF ~prov.triggered /\ ~prov.closed
                   THEN \* self._cond.wait() releases the lock
                        [prov EXCEPT !.lock = "none", !.notified = FALSE,
                                     !.mpc = "wt_waiting"]
                   ELSE [prov EXCEPT !.lock = "none", !.mpc = "wt_return"]
     \/ /\ prov.mpc = "wt_waiting" /\ prov.notified
        /\ prov' = [prov EXCEPT !.mpc = "wt_reacquire"]
     \/ /\ prov.mpc = "wt_reacquire" /\ prov.lock = "none"
        /\ prov' = [prov EXCEPT !.lock = "main", !.mpc = "wt_woken"]
     \/ /\ prov.mpc = "wt_woken"
        /\ prov' = IF prov.closed
                   THEN [prov EXCEPT !.lock = "none", !.mpc = "wt_return"]
                   ELSE [prov EXCEPT !.mpc = "wt_check"]
  /\ UNCHANGED << cwcVars, wpas, sta, evt >>

\* Run, lines 110-181, and main's loop over it, lines 360-362.  After a
\* trigger the wait for a configured network (line 121) is skipped.
BtProvServer_Run ==
  /\ MainRuns
  /\ \/ /\ prov.mpc = "run"
        /\ prov' = [prov EXCEPT !.mpc = "wt_acquire"]
     \/ /\ prov.mpc = "wt_return"
        /\ prov' = IF prov.closed
                   THEN [prov EXCEPT !.result = "false", !.mpc = "main_close"]
                   ELSE [prov EXCEPT !.started = TRUE, !.mpc = "serving"]
     \/ \* the timeout expires, or accept raises on the closed socket
        /\ prov.mpc = "serving"
        /\ prov' = [prov EXCEPT !.mpc = "server_done"]
     \/ /\ prov.mpc = "server_done"
        /\ prov' = IF prov.closed
                   THEN [prov EXCEPT !.triggered = FALSE, !.result = "false",
                                     !.mpc = "main_close"]
                   ELSE [prov EXCEPT !.triggered = FALSE, !.result = "true",
                                     !.mpc = "run"]
  /\ UNCHANGED << cwcVars, wpas, sta, evt >>

\* _HandleGetState, lines 240-248: the device name under BtProvServer._lock,
\* then _SetWifiInfo: StaWpasClient.GetState under StaWpasClient._lock, and
\* in it GetSignal: SendCommand under WpasClient._control_lock.
HandleGetState ==
  /\ MainRuns
  /\ \/ /\ prov.mpc = "serving"
        /\ prov' = [prov EXCEPT !.mpc = "gs_acquire"]
     \/ /\ prov.mpc = "gs_acquire" /\ prov.lock = "none"
        /\ prov' = [prov EXCEPT !.lock = "main", !.mpc = "gs_locked"]
     \/ /\ prov.mpc = "gs_locked"
        /\ prov' = [prov EXCEPT !.lock = "none", !.mpc = "sta_acquire"]
     \/ /\ prov.mpc = "sta_acquire" /\ prov.sta_lock = "none"
        /\ prov' = [prov EXCEPT !.sta_lock = "main", !.mpc = "sta_locked"]
     \/ /\ prov.mpc = "sta_locked" /\ prov.control_lock = "none"
        /\ prov' = [prov EXCEPT !.control_lock = "main", !.mpc = "control_locked"]
     \/ /\ prov.mpc = "control_locked"
        /\ prov' = [prov EXCEPT !.control_lock = "none", !.sta_lock = "none",
                                !.mpc = "serving"]
  /\ UNCHANGED << cwcVars, wpas, sta, evt >>

\* main, line 363: server.Close() once the loop is left, and the process
\* ends when it has returned.
MainClose ==
  /\ MainRuns
  /\ \/ /\ prov.mpc = "main_close"
        /\ prov' = [prov EXCEPT !.mpc = "closing", !.hpc = "close_acquire"]
     \/ /\ prov.mpc = "closing"
        /\ prov' = [prov EXCEPT !.mpc = "exited"]
  /\ UNCHANGED << cwcVars, wpas, sta, evt >>

\* _SignalHandler, lines 50-53: a signal arrives, whatever the main thread
\* is executing, and the handler calls Close.
SignalHandler ==
  /\ MainRuns
  /\ prov.mpc # "exited"
  /\ prov.signals < MaxSignals
  /\ prov' = [prov EXCEPT !.signals = @ + 1, !.hpc = "close_acquire"]
  /\ UNCHANGED << cwcVars, wpas, sta, evt >>

\* BtProvServer.Close, lines 93-108; in it StaWpasClient.Close
\* (sta_wpas_client.py, lines 43-46) and WpasClient.Close (wpas_client.py,
\* lines 48-52).
BtProvServer_Close ==
  /\ \/ /\ prov.hpc = "close_acquire" /\ prov.lock = "none"
        /\ prov' = [prov EXCEPT !.lock = "close", !.hpc = "close_locked"]
     \/ /\ prov.hpc = "close_locked"
        /\ prov' = IF prov.closed
                   THEN [prov EXCEPT !.lock = "none", !.hpc = "none"]
                   ELSE [NotifyAll(prov) EXCEPT !.closed = TRUE, !.lock = "none",
                                                !.hpc = "sta_acquire"]
     \/ /\ prov.hpc = "sta_acquire" /\ prov.sta_lock = "none"
        /\ prov' = [prov EXCEPT !.sta_lock = "close", !.hpc = "sta_locked"]
     \/ /\ prov.hpc = "sta_locked"
        /\ prov' = [prov EXCEPT !.sta_lock = "none", !.hpc = "control_acquire"]
     \/ /\ prov.hpc = "control_acquire" /\ prov.control_lock = "none"
        /\ prov' = [prov EXCEPT !.control_lock = "close", !.hpc = "control_locked"]
     \/ /\ prov.hpc = "control_locked"
        /\ prov' = [prov EXCEPT !.control_lock = "none", !.hpc = "sockets"]
     \/ \* the sockets, _SetDiscoverable(False), the trigger
        /\ prov.hpc = "sockets"
        /\ prov' = [prov EXCEPT !.teardowns = @ + 1, !.hpc = "none"]
  /\ UNCHANGED << cwcVars, wpas, sta, evt >>

\* The button is held: the trigger calls the function it was given.
Press ==
  /\ prov.tpc = "idle"
  /\ prov.presses < MaxPresses
  /\ prov' = [prov EXCEPT !.presses = @ + 1, !.tpc = "acquire"]
  /\ UNCHANGED << cwcVars, wpas, sta, evt >>

\* _Triggered, lines 194-197, on the trigger's thread.
Triggered ==
  /\ \/ /\ prov.tpc = "acquire" /\ prov.lock = "none"
        /\ prov' = [prov EXCEPT !.lock = "trigger", !.tpc = "locked"]
     \/ /\ prov.tpc = "locked"
        /\ prov' = [NotifyAll(prov) EXCEPT !.triggered = TRUE, !.lock = "none",
                                           !.tpc = "idle"]
  /\ UNCHANGED << cwcVars, wpas, sta, evt >>

NextProv ==
  \/ WaitForTrigger
  \/ BtProvServer_Run
  \/ HandleGetState
  \/ MainClose
  \/ SignalHandler
  \/ BtProvServer_Close
  \/ Press
  \/ Triggered

SpecProv == Init /\ [][NextProv]_vars

\* Every thread that can take its next step takes it.  Nothing is assumed
\* of the signals, of the button or of the Bluetooth client.
FairProv ==
  /\ SpecProv
  /\ WF_vars(WaitForTrigger)
  /\ WF_vars(BtProvServer_Run)
  /\ WF_vars(MainClose)
  /\ WF_vars(BtProvServer_Close)
  /\ WF_vars(Triggered)

\* The main thread is in _WaitForTrigger.
InWaitForTrigger ==
  prov.mpc \in { "wt_acquire", "wt_check", "wt_waiting", "wt_reacquire", "wt_woken" }

\* _Triggered or Close has been called.
Called == prov.tpc # "idle" \/ prov.triggered \/ prov.hpc # "none" \/ prov.closed

(***************************************************************************)
(* C35.  _WaitForTrigger returns only when _triggered or _closed is set;   *)
(* once _Triggered or Close has been called, before the wait or during     *)
(* it, _WaitForTrigger returns; Close tears down at most once; and a Run   *)
(* that finds _closed set after the wait returns False without starting    *)
(* the Bluetooth server.                                                   *)
(***************************************************************************)
C35_WaitForTriggerReturns ==
  /\ [][(InWaitForTrigger /\ prov'.mpc = "wt_return")
        => (prov.triggered \/ prov.closed)]_vars
  /\ [](prov.teardowns <= 1)
  /\ [][(prov.mpc = "wt_return" /\ prov.closed /\ prov'.mpc # "wt_return")
        => (prov'.result = "false" /\ prov'.started = prov.started)]_vars
  /\ (InWaitForTrigger /\ Called) ~> ~InWaitForTrigger

(***************************************************************************)
(* C36.  A call of Close made by the signal handler returns, wherever the  *)
(* main thread was when the signal arrived.                                *)
(***************************************************************************)
C36_SignalCloseCompletes == (prov.hpc # "none") ~> (prov.hpc = "none")

(***************************************************************************)
(* sta_wpas_client.py, ConnectNetwork (lines 90-173).  It runs under       *)
(* StaWpasClient._lock, which only its waits on _state_change_cond         *)
(* release: _OnEvent and _OnNewIp, which take the lock, change what it     *)
(* sees only while it waits.  The waits are timed, so they may return at   *)
(* any moment, and the timeout may expire at any moment.                   *)
(***************************************************************************)
MaxCalls == 2

WpaStates == { "DISCONNECTED", "SCANNING", "ASSOCIATING", "COMPLETED" }
Addresses == { "", "10.0.0.2" }
Ssids == { "home", "cafe" }

NetworkIds(networks) == { n.id : n \in networks }

\* ADD_NETWORK: wpa_supplicant gives the lowest id that is free.
AddNetwork(networks) ==
  CHOOSE id \in 0..Cardinality(networks) : id \notin NetworkIds(networks)

\* RemoveNetwork(net_id)
RemoveNetwork(networks, id) == { n \in networks : n.id # id }

\* GetNetworkBySsid(ssid), and RemoveNetwork of what it found (lines 95-101).
RemoveNetworkBySsid(networks, ssid) ==
  LET found == { n \in networks : n.ssid = ssid }
  IN IF found = {} THEN networks
     ELSE RemoveNetwork(networks,
                        (CHOOSE n \in found : \A m \in found : n.id <= m.id).id)

IsCompleted(wpa_state, dhcp_address) == wpa_state = "COMPLETED"

\* Line 162: self._status["wpa_state"] == "COMPLETED" and self._dhcp_address
IsConnected(wpa_state, dhcp_address) == wpa_state = "COMPLETED" /\ dhcp_address # ""

\* The lock is free: no call, or the call is inside a wait.
StaLockFree == sta.pc \in { "idle", "dhcp_wait", "state_wait" }

\* Lines 90-105: the call, up to the wait for the release of the old lease.
ConnectNetwork(ssid) ==
  /\ sta.pc = "idle"
  /\ sta.calls < MaxCalls
  /\ sta' = [sta EXCEPT !.calls = @ + 1, !.ssid = ssid, !.result = "none",
                        !.expired = FALSE, !.added = FALSE,
                        !.networks = RemoveNetworkBySsid(@, ssid),
                        !.pc = "dhcp_loop"]
  /\ UNCHANGED << cwcVars, prov, wpas, evt >>

\* Lines 106-132: the loop that waits for the release, the return when the
\* lease is still held, and otherwise the new network, set up and selected.
ReleaseThenAdd ==
  /\ sta.pc = "dhcp_loop"
  /\ sta' = IF ~sta.expired /\ sta.dhcp_address # ""
            THEN [sta EXCEPT !.pc = "dhcp_wait"]
            ELSE IF sta.dhcp_address # ""
            THEN [sta EXCEPT !.result = "false", !.pc = "idle"]
            ELSE [sta EXCEPT !.net_id = AddNetwork(sta.networks),
                             !.networks = @ \cup { [id |-> AddNetwork(sta.networks),
                                                    ssid |-> sta.ssid] },
                             !.added = TRUE,
                             !.last_disabled = -1,
                             !.pc = "state_loop"]
  /\ UNCHANGED << cwcVars, prov, wpas, evt >>

\* self._state_change_cond.wait(to_wait) returns (lines 111 and 136).
WaitReturnsToConnect ==
  /\ sta.pc \in { "dhcp_wait", "state_wait" }
  /\ sta' = [sta EXCEPT !.pc = IF @ = "dhcp_wait" THEN "dhcp_loop" ELSE "state_woken"]
  /\ UNCHANGED << cwcVars, prov, wpas, evt >>

\* Lines 134-160: the loop that waits for the connection.
AwaitConnection ==
  /\ \/ /\ sta.pc = "state_loop"
        /\ sta' = [sta EXCEPT !.pc = IF sta.expired THEN "final" ELSE "state_wait"]
     \/ /\ sta.pc = "state_woken"
        /\ sta' = [sta EXCEPT !.pc =
                     IF sta.last_disabled = sta.net_id THEN "final"
                     ELSE IF sta.wpa_state = "COMPLETED" /\ sta.dhcp_address # ""
                     THEN "final"
                     ELSE "state_loop"]
  /\ UNCHANGED << cwcVars, prov, wpas, evt >>

\* Lines 162-173: SaveConfig and True, or RemoveNetwork and False.
ConnectReturns ==
  /\ sta.pc = "final"
  /\ sta' = IF IsConnected(sta.wpa_state, sta.dhcp_address)
            THEN [sta EXCEPT !.saved = @ + 1, !.result = "true", !.pc = "idle"]
            ELSE [sta EXCEPT !.networks = RemoveNetwork(@, sta.net_id),
                             !.result = "false", !.pc = "idle"]
  /\ UNCHANGED << cwcVars, prov, wpas, evt >>

\* time.monotonic() - start reaches timeout.
TimeoutExpires ==
  /\ sta.pc # "idle"
  /\ ~sta.expired
  /\ sta' = [sta EXCEPT !.expired = TRUE]
  /\ UNCHANGED << cwcVars, prov, wpas, evt >>

\* _OnEvent, lines 197-232, on the event thread: the status is read again,
\* and a CTRL-EVENT-SSID-TEMP-DISABLED event is kept.
StaOnEvent ==
  /\ StaLockFree
  /\ \/ \E s \in WpaStates : sta' = [sta EXCEPT !.wpa_state = s]
     \/ \E id \in NetworkIds(sta.networks) :
          /\ sta.last_disabled # id
          /\ sta' = [sta EXCEPT !.last_disabled = id]
  /\ sta' # sta
  /\ UNCHANGED << cwcVars, prov, wpas, evt >>

\* _OnNewIp, lines 234-239, on the DHCP thread.
StaOnNewIp ==
  /\ StaLockFree
  /\ \E ip \in Addresses \ { sta.dhcp_address } : sta' = [sta EXCEPT !.dhcp_address = ip]
  /\ UNCHANGED << cwcVars, prov, wpas, evt >>

NextConnect ==
  \/ \E ssid \in Ssids : ConnectNetwork(ssid)
  \/ ReleaseThenAdd
  \/ WaitReturnsToConnect
  \/ AwaitConnection
  \/ ConnectReturns
  \/ TimeoutExpires
  \/ StaOnEvent
  \/ StaOnNewIp

SpecConnect == Init /\ [][NextConnect]_vars

\* A step in which ConnectNetwork returns.
Returns(value) == sta.pc # "idle" /\ sta'.pc = "idle" /\ sta'.result = value

(***************************************************************************)
(* C37.  ConnectNetwork returns True only with wpa_state COMPLETED and a   *)
(* DHCP address held at that moment; the configuration is saved in no      *)
(* other step; when it returns False after AddNetwork, the network it      *)
(* added is no longer configured; and when it returns False because the    *)
(* old lease was not released it has added no network.                     *)
(***************************************************************************)
C37_ConnectNetworkResult ==
  [][/\ Returns("true")
        => (sta'.wpa_state = "COMPLETED" /\ sta'.dhcp_address # "")
     /\ sta'.saved # sta.saved => Returns("true")
     /\ (Returns("false") /\ sta.added)
        => sta.net_id \notin NetworkIds(sta'.networks)
     /\ (Returns("false") /\ sta.pc = "dhcp_loop")
        => (~sta.added /\ sta'.networks = sta.networks /\ sta.dhcp_address # "")]_vars

C37_Witness ==
  /\ sta.pc = "idle" /\ sta.calls = 2
  /\ sta.result = "false" /\ sta.added
  /\ sta.wpa_state = "COMPLETED" /\ sta.dhcp_address = ""
  /\ sta.saved = 1
  /\ sta.networks = { [id |-> 0, ssid |-> "home"] }

(***************************************************************************)
(* The locks of StaWpasClient and P2pWpasClient.  What a call does to the  *)
(* locks is a sequence of acquisitions and releases; a wait on a           *)
(* condition releases its lock and takes it again, and every wait of       *)
(* these classes is timed.  The callers are the main thread and a second   *)
(* thread that closes the clients; each client has its event thread, and   *)
(* the STA client the thread of its DHCP client.                           *)
(***************************************************************************)
Lock(o) == [obj |-> o, lock |-> "_lock"]
ControlLock(o) == [obj |-> o, lock |-> "_control_lock"]
AlarmLock(o) == [obj |-> o, lock |-> "_alarm_lock"]

\* with lock: body
WithLock(l, body) == << << "acquire", l >> >> \o body \o << << "release", l >> >>

\* WpasClient.SendCommand and WpasClient.Close, wpas_client.py lines 43-52.
SendCommand(o) == WithLock(ControlLock(o), << >>)

\* Condition.wait(timeout) on a condition of the lock l.
CondWait(l) == << << "release", l >>, << "acquire", l >> >>

ProcessAlarmsLocked(o, callbacks) == WithLock(AlarmLock(o), callbacks)

\* _EventThread._ProcessAlarms, wpas_client.py lines 252-268: the expired
\* alarms are taken under the alarm lock and passed to _OnAlarm after it.
ProcessAlarms(o, callbacks) == WithLock(AlarmLock(o), << >>) \o callbacks

Program(op) ==
  CASE op = "sta.GetState" ->
         WithLock(Lock("sta"), SendCommand("sta"))
    [] op = "sta.WaitForNetwork" ->
         WithLock(Lock("sta"), SendCommand("sta") \o CondWait(Lock("sta")))
    [] op = "sta.Scan" ->
         WithLock(Lock("sta"), SendCommand("sta") \o CondWait(Lock("sta")))
         \o SendCommand("sta")
    [] op = "sta.ConnectNetwork" ->
         WithLock(Lock("sta"),
                  SendCommand("sta") \o CondWait(Lock("sta")) \o SendCommand("sta")
                  \o CondWait(Lock("sta")) \o SendCommand("sta"))
    [] op = "sta.Close" ->
         WithLock(Lock("sta"), << >>) \o SendCommand("sta")
    [] op = "sta._OnEvent" ->
         WithLock(Lock("sta"), SendCommand("sta"))
    [] op = "sta._OnNewIp" ->
         WithLock(Lock("sta"), SendCommand("sta"))
    [] op = "sta._ProcessAlarms" ->
         ProcessAlarms("sta", << >>)
    [] op = "p2p.StartP2pGo" ->
         WithLock(Lock("p2p"),
                  SendCommand("p2p") \o WithLock(AlarmLock("p2p"), << >>)
                  \o CondWait(Lock("p2p")))
    [] op = "p2p.Close" ->
         WithLock(Lock("p2p"), SendCommand("p2p")) \o SendCommand("p2p")
    [] op = "p2p._OnEvent" ->
         WithLock(Lock("p2p"), << >>)
    [] op = "p2p._ProcessAlarms" ->
         ProcessAlarms("p2p", WithLock(Lock("p2p"), SendCommand("p2p")))

\* What each thread calls.
OpsOf(t) ==
  CASE t = "main" -> { "sta.GetState", "sta.WaitForNetwork", "sta.Scan",
                       "sta.ConnectNetwork", "sta.Close", "p2p.StartP2pGo", "p2p.Close" }
    [] t = "closer" -> { "sta.Close", "p2p.Close" }
    [] t = "sta.event" -> { "sta._OnEvent", "sta._ProcessAlarms" }
    [] t = "sta.dhcp" -> { "sta._OnNewIp" }
    [] t = "p2p.event" -> { "p2p._OnEvent", "p2p._ProcessAlarms" }

Call(t, op) ==
  /\ wpas.op[t] = "idle"
  /\ wpas' = [wpas EXCEPT !.op[t] = op, !.at[t] = 1]
  /\ UNCHANGED << cwcVars, prov, sta, evt >>

\* What the thread does next to a lock.
NextIns(t) == Program(wpas.op[t])[wpas.at[t]]

\* The thread takes or releases the lock, and returns after the last one.
LockStep(t) ==
  /\ wpas.op[t] # "idle"
  /\ LET ins == NextIns(t)
         last == wpas.at[t] = Len(Program(wpas.op[t]))
     IN /\ ins[1] = "acquire" => wpas.owner[ins[2]] = "none"
        /\ wpas' = [wpas EXCEPT
                      !.owner[ins[2]] = IF ins[1] = "acquire" THEN t ELSE "none",
                      !.at[t] = IF last THEN 0 ELSE @ + 1,
                      !.op[t] = IF last THEN "idle" ELSE @]
  /\ UNCHANGED << cwcVars, prov, sta, evt >>

NextLocks ==
  \E t \in Threads :
    \/ \E op \in OpsOf(t) : Call(t, op)
    \/ LockStep(t)

SpecLocks == Init /\ [][NextLocks]_vars

Held(t) == { l \in Locks : wpas.owner[l] = t }

\* The thread is about to acquire a lock.
Acquiring(t) == wpas.op[t] # "idle" /\ NextIns(t)[1] = "acquire"

\* The thread waits for a lock that another thread holds.
Blocked(t) == Acquiring(t) /\ wpas.owner[NextIns(t)[2]] # "none"

(***************************************************************************)
(* C38.  A thread that acquires a lock holds at most the _lock of the      *)
(* same client, and then acquires that client's control lock or alarm      *)
(* lock; so the alarm lock is not held when _OnAlarm takes the _lock, and  *)
(* there is never a set of threads each of which waits for a lock that a   *)
(* thread of the set holds.                                                *)
(***************************************************************************)
C38_NoDeadlock ==
  /\ \A t \in Threads :
       Acquiring(t)
       => \A h \in Held(t) :
            /\ h.lock = "_lock"
            /\ NextIns(t)[2].lock # "_lock"
            /\ NextIns(t)[2].obj = h.obj
  /\ ~\E S \in SUBSET Threads \ { {} } :
        \A t \in S : Blocked(t) /\ wpas.owner[NextIns(t)[2]] \in S

C38_Witness ==
  /\ wpas.op["main"] = "p2p.StartP2pGo" /\ wpas.owner[Lock("p2p")] = "main"
  /\ Blocked("main") /\ wpas.owner[AlarmLock("p2p")] = "p2p.event"
  /\ wpas.op["sta.event"] = "sta._OnEvent" /\ Blocked("sta.event")
  /\ wpas.owner[Lock("sta")] = "closer"
  /\ Blocked("sta.dhcp")

(***************************************************************************)
(* wpas_client.py, _EventThread: the alarms.  SetAlarm is called by any    *)
(* thread; _ProcessAlarms runs on the event thread, reads the clock, takes *)
(* the expired alarms under the alarm lock and passes them to _OnAlarm     *)
(* after releasing it, so that alarms may be set and time may pass         *)
(* between any two of its steps.  Time is counted in whole units.          *)
(***************************************************************************)
MaxTime == 3
MaxAlarms == 3

\* The delays alarms are set with.
Delays == { 0, 1, 2 }

Unsorted(list) == list

\* list.sort(key=lambda entry: entry[0]), line 237: a stable sort.
RECURSIVE InsertByDeadline(_, _)
InsertByDeadline(sorted, entry) ==
  IF sorted = << >> THEN << entry >>
  ELSE IF Head(sorted).deadline <= entry.deadline
  THEN << Head(sorted) >> \o InsertByDeadline(Tail(sorted), entry)
  ELSE << entry >> \o sorted

RECURSIVE SortByDeadline(_)
SortByDeadline(list) ==
  IF list = << >> THEN << >>
  ELSE InsertByDeadline(SortByDeadline(SubSeq(list, 1, Len(list) - 1)), list[Len(list)])

\* _IsExpired, lines 261-262.
IsExpired(now, entry) == now >= entry.deadline

\* SetAlarm, lines 234-237.
SetAlarm(delay) ==
  /\ evt.registered < MaxAlarms
  /\ evt' = [evt EXCEPT
               !.registered = @ + 1,
               !.alarms = SortByDeadline(Append(@, [deadline |-> evt.now + delay,
                                                    alarm |-> evt.registered + 1]))]
  /\ UNCHANGED << cwcVars, prov, wpas, sta >>

\* time.monotonic() advances.
Tick ==
  /\ evt.now < MaxTime
  /\ evt' = [evt EXCEPT !.now = @ + 1]
  /\ UNCHANGED << cwcVars, prov, wpas, sta >>

\* _ProcessAlarms, lines 252-268.
EventThread_ProcessAlarms ==
  /\ \/ \* now = time.monotonic()
        /\ evt.pc = "idle"
        /\ evt' = [evt EXCEPT !.sampled = evt.now, !.pc = "sampled"]
     \/ \* with self._alarm_lock
        /\ evt.pc = "sampled"
        /\ evt' = IF evt.alarms = << >> \/ evt.alarms[1].deadline > evt.sampled
                  THEN [evt EXCEPT !.pc = "idle"]
                  ELSE [evt EXCEPT
                          !.expired = SelectSeq(evt.alarms,
                                                LAMBDA a : IsExpired(evt.sampled, a)),
                          !.alarms = SelectSeq(@, LAMBDA a : ~IsExpired(evt.sampled, a)),
                          !.pass = @ + 1,
                          !.pc = "dispatch"]
     \/ \* for alarm in expired: self._owner._OnAlarm(alarm[1])
        /\ evt.pc = "dispatch"
        /\ evt' = IF evt.expired = << >>
                  THEN [evt EXCEPT !.pc = "idle"]
                  ELSE [evt EXCEPT
                          !.fired = Append(@, [alarm |-> Head(evt.expired).alarm,
                                               deadline |-> Head(evt.expired).deadline,
                                               at |-> evt.now, pass |-> evt.pass]),
                          !.expired = Tail(@)]
  /\ UNCHANGED << cwcVars, prov, wpas, sta >>

NextAlarms ==
  \/ \E delay \in Delays : SetAlarm(delay)
  \/ Tick
  \/ EventThread_ProcessAlarms

SpecAlarms == Init /\ [][NextAlarms]_vars

\* How many entries of a list are for one alarm.
Entries(list, alarm) == Cardinality({ i \in 1..Len(list) : list[i].alarm = alarm })

(***************************************************************************)
(* C39.  The pending alarms are sorted by deadline; an alarm that was set  *)
(* is pending, or taken, or has been passed to _OnAlarm, and only one of   *)
(* these and only once; it is passed to _OnAlarm at or after its           *)
(* deadline; the alarms of one pass are passed in non-decreasing order of  *)
(* deadline; and no step removes a pending alarm whose deadline is still   *)
(* ahead.                                                                  *)
(***************************************************************************)
C39_AlarmsInOrder ==
  /\ [](\A i, j \in 1..Len(evt.alarms) :
          i < j => evt.alarms[i].deadline <= evt.alarms[j].deadline)
  /\ [](\A a \in 1..evt.registered :
          Entries(evt.alarms, a) + Entries(evt.expired, a) + Entries(evt.fired, a) = 1)
  /\ [](\A i \in 1..Len(evt.fired) : evt.fired[i].at >= evt.fired[i].deadline)
  /\ [](\A i, j \in 1..Len(evt.fired) :
          (i < j /\ evt.fired[i].pass = evt.fired[j].pass)
          => evt.fired[i].deadline <= evt.fired[j].deadline)
  /\ [][\A i \in 1..Len(evt.alarms) :
          evt.alarms[i].deadline > evt.now
          => Entries(evt'.alarms, evt.alarms[i].alarm) = 1]_vars

C39_Witness ==
  /\ Len(evt.fired) = 2
  /\ evt.fired[1].pass = evt.fired[2].pass
  /\ evt.fired[1].alarm > evt.fired[2].alarm
  /\ evt.fired[1].deadline < evt.fired[2].deadline
  /\ Len(evt.alarms) = 1 /\ evt.alarms[1].deadline > evt.now

====
